---- MODULE Spec2Model ----
(***************************************************************************)
(* A model of gears.rbac: the RBAC authority (users, groups, permissions,  *)
(* roles, role bindings) and its decision function.                        *)
(*                                                                         *)
(* Conventions.                                                            *)
(*  - A Python str is the sequence of its ':'-separated segments:          *)
(*    "a" is <<"a">>, "user:a" is <<"user", "a">>, "x:READ" is             *)
(*    <<"x", "READ">>.  Prefixing with "user:" is <<"user">> \o name.      *)
(*  - An argument is a tagged record: [kind |-> "str", s |-> segments] for *)
(*    a str, [kind |-> "User", ...], [kind |-> "Group", ...],              *)
(*    [kind |-> "Permission", ...], [kind |-> "Role", ...] for objects.    *)
(*  - A dict is a function from its keys to its values.  Where the code    *)
(*    walks a dict (list(d.values())) the model walks the keys in one      *)
(*    fixed order (SetToSeq); no modelled operation reads a position.      *)
(*  - Role and Group objects are mutable and are replaced on               *)
(*    re-registration, so they live in heaps (roleObjs, groupObjs) and are *)
(*    referred to by their index.                                          *)
(*  - A call yields [raised |-> exception name or "none", ret |-> value]   *)
(*    and, for a call that writes, st |-> the authority after the call.    *)
(***************************************************************************)
EXTENDS Integers, Sequences, FiniteSets, TLC

VARIABLES
    rbac,     \* the RBAC singleton: its mappings and the objects they refer to
    last,     \* the call a single client made last and its outcome
    th,       \* per thread: the calls it has still to make, the call it is in
              \* (method, arguments, critical section, locals) and the
              \* outcomes of the calls it has made
    locks,    \* the locks that are held: <<lock, thread>>
    workload, \* the programs the threads run (0: none, single client)
    single,   \* SingletonController: _instance, _lock, the constructor runs
              \* and each thread's position in __call__
    runs,     \* a set of registration calls made in two orders: the calls
              \* still to make in the first run (on rbac) and in the second
              \* run, and the authority of the second run
    factory   \* the Factory singleton: _builders and _default

vars == <<rbac, last, th, locks, workload, single, runs, factory>>

-----------------------------------------------------------------------------
(* Bounds of the model *)

\* The number of stored items (users, groups, permissions, roles, memberships,
\* attachments, bindings) up to which registrations are explored.
MaxSize == 7

\* The number of Role objects and of Group objects created (a re-registration
\* creates a new object)
MaxRoleObjs == 2
MaxGroupObjs == 2

\* The number of stored items up to which guarded calls are made
MaxGuardSize == 5

\* The number of calls C() that each thread makes
MaxCalls == 2

\* A configuration is loaded into an authority that holds at most this much
MaxConfigSize == 3

-----------------------------------------------------------------------------
(* Values *)

NONE == 0
READ == 100
WRITE == 200
EXECUTE == 300

PermissionType == {NONE, READ, WRITE, EXECUTE}

\* PermissionType(level).name
LevelName(level) ==
    CASE level = NONE -> "NONE"
      [] level = READ -> "READ"
      [] level = WRITE -> "WRITE"
      [] level = EXECUTE -> "EXECUTE"

Str(segments) == [kind |-> "str", s |-> segments]

NoneValue == [kind |-> "None"]
Bool(b) == [kind |-> "bool", b |-> b]
List(items) == [kind |-> "list", items |-> items]

Return(value) == [raised |-> "none", ret |-> value]
Raise(exc) == [raised |-> exc, ret |-> NoneValue]
Done(st) == [raised |-> "none", ret |-> NoneValue, st |-> st]
Fail(exc, st) == [raised |-> exc, ret |-> NoneValue, st |-> st]

\* The segments that are words over [a-zA-Z0-9_]
Words == {"a", "b", "user", "group"}

\* The segments that are such a word followed by one newline
WordsBeforeNewline == {"a\n"}

EmptyDict == <<>>
DictSet(d, key, value) == (key :> value) @@ d

Range(f) == {f[k] : k \in DOMAIN f}

\* One enumeration of a finite set, the same for equal sets.
SetToSeq(S) ==
    CHOOSE q \in [1..Cardinality(S) -> S] : Range(q) = S

\* list(d.values())
DictValues(d) ==
    LET keys == SetToSeq(DOMAIN d) IN [i \in DOMAIN keys |-> d[keys[i]]]

RECURSIVE Concat(_)
Concat(lists) ==
    IF lists = <<>> THEN <<>> ELSE Head(lists) \o Concat(Tail(lists))

-----------------------------------------------------------------------------
(* Permission *)

Permission(name, level) == [kind |-> "Permission", name |-> name, level |-> level]

\* Permission.__str__
PermissionStr(p) == <<p.name, LevelName(p.level)>>

\* Permission.__eq__
PermissionEq(self, other) ==
    self.name = other.name /\ self.level >= other.level

-----------------------------------------------------------------------------
(* Entity, User, Group, Role *)

\* Entity.__post_init__: re.match(r"^(user|group):[a-zA-Z0-9_]+$", name)
EntityNameOk(name) ==
    /\ Len(name) = 2
    /\ name[1] \in {"user", "group"}
    /\ name[2] \in Words \cup WordsBeforeNewline

\* User(name=uname) without the check of the name
UserNewUnchecked(uname) == Return([kind |-> "User", name |-> <<"user">> \o uname])

\* User(name=uname)
UserNew(uname) ==
    LET name == <<"user">> \o uname IN
    IF EntityNameOk(name)
    THEN Return([kind |-> "User", name |-> name])
    ELSE Raise("ValueError")

\* Group(name=gname): the object that is put in the heap
GroupNew(gname) ==
    LET name == <<"group">> \o gname IN
    IF EntityNameOk(name)
    THEN Return([name |-> name, users |-> EmptyDict])
    ELSE Raise("ValueError")

\* A reference to the Group object groupObjs[id]
GroupRef(s, id) == [kind |-> "Group", name |-> s.groupObjs[id].name, id |-> id]

\* A reference to the Role object roleObjs[id]
RoleRef(s, id) == [kind |-> "Role", name |-> s.roleObjs[id].name, id |-> id]

IsEntity(x) == x.kind \in {"User", "Group"}

\* Group.has_entity
HasEntity(group, entity) ==
    IF entity.kind = "User"
    THEN Return(Bool(entity.name \in DOMAIN group.users))
    ELSE Raise("RBACEntityNotFound")

\* Group.add_user on the object groupObjs[id]; an object that is not one of
\* the authority's is changed without any effect on the authority
GroupAddUser(s, group, user) ==
    IF group.id \in DOMAIN s.groupObjs
    THEN [s EXCEPT !.groupObjs[group.id].users = DictSet(@, user.name, user)]
    ELSE s

\* attach_permission that takes away a permission the role has already
AttachPermissionOrDetach(s, role, permission) ==
    LET held == s.roleObjs[role.id].permissions
        key == PermissionStr(permission)
    IN  [s EXCEPT !.roleObjs[role.id].permissions =
                      IF key \in DOMAIN held
                      THEN [k \in DOMAIN held \ {key} |-> held[k]]
                      ELSE DictSet(held, key, permission)]

\* Role.attach_permission on the object roleObjs[id]
AttachPermission(s, role, permission) ==
    [s EXCEPT !.roleObjs[role.id].permissions =
                  DictSet(@, PermissionStr(permission), permission)]

\* Role.can_do on the object roleObjs[id]
RoleCanDo(s, role, permission) ==
    LET pname == PermissionStr(permission)
        held == s.roleObjs[role.id].permissions
    IN  Return(Bool(pname \in DOMAIN held /\ PermissionEq(held[pname], permission)))

-----------------------------------------------------------------------------
(* RBAC *)

\* RBAC.__init__
RBACInit ==
    [roles |-> EmptyDict, permissions |-> EmptyDict, users |-> EmptyDict,
     groups |-> EmptyDict, rbind_to_ent |-> EmptyDict, rbind_to_role |-> EmptyDict,
     roleObjs |-> <<>>, groupObjs |-> <<>>]

\* _check_entity with the check left out
CheckEntityNeverRaises(s, entity) == Return(NoneValue)

\* RBAC._check_entity
CheckEntity(s, entity) ==
    IF entity = NoneValue
    THEN Raise("RBACEntityNotFound")     \* None is a key of neither dict
    ELSE LET key == IF IsEntity(entity) THEN entity.name ELSE entity.s IN
         IF key \notin DOMAIN s.users /\ key \notin DOMAIN s.groups
         THEN Raise("RBACEntityNotFound")
         ELSE Return(NoneValue)

\* RBAC._check_permission
CheckPermission(s, permission) ==
    LET key == IF permission.kind = "Permission"
               THEN PermissionStr(permission) ELSE permission.s IN
    IF key \notin DOMAIN s.permissions
    THEN Raise("RBACPermissionNotFound")
    ELSE Return(NoneValue)

\* RBAC._check_role
CheckRole(s, role) ==
    LET key == IF role.kind = "Role" THEN role.name ELSE role.s IN
    IF key \notin DOMAIN s.roles
    THEN Raise("RBACRoleNotFound")
    ELSE Return(NoneValue)

\* add_user that drops the users registered before
AddUserAlone(s, uname) ==
    LET u == UserNew(uname) IN
    IF u.raised # "none" THEN Fail(u.raised, s)
    ELSE Done([s EXCEPT !.users = DictSet(EmptyDict, uname, u.ret)])

\* RBAC.add_user
AddUser(s, uname) ==
    LET u == UserNew(uname) IN
    IF u.raised # "none" THEN Fail(u.raised, s)
    ELSE Done([s EXCEPT !.users = DictSet(@, uname, u.ret)])

\* add_group that hands the members of the group registered before over to
\* the new Group object
AddGroupKeepsMembers(s, gname) ==
    LET g == GroupNew(gname) IN
    IF g.raised # "none" THEN Fail(g.raised, s)
    ELSE Done([s EXCEPT
                 !.groupObjs = Append(@, IF gname \in DOMAIN s.groups
                                         THEN s.groupObjs[s.groups[gname]]
                                         ELSE g.ret),
                 !.groups = DictSet(@, gname, Len(s.groupObjs) + 1)])

\* RBAC.add_group
AddGroup(s, gname) ==
    LET g == GroupNew(gname) IN
    IF g.raised # "none" THEN Fail(g.raised, s)
    ELSE Done([s EXCEPT !.groupObjs = Append(@, g.ret),
                        !.groups = DictSet(@, gname, Len(s.groupObjs) + 1)])

\* RBAC.get_entity
GetEntity(s, entity) ==
    LET c == CheckEntity(s, entity) IN
    IF c.raised # "none" THEN c
    ELSE IF entity.kind = "str"
         THEN IF entity.s \in DOMAIN s.users THEN Return(s.users[entity.s])
              ELSE IF entity.s \in DOMAIN s.groups
                   THEN Return(GroupRef(s, s.groups[entity.s]))
                   ELSE Raise("KeyError")
         ELSE Return(entity)

\* RBAC.add_user_to_group
AddUserToGroup(s, user, group) ==
    LET c1 == CheckEntity(s, user)
        c2 == CheckEntity(s, group)
    IN  IF c1.raised # "none" THEN Fail(c1.raised, s)
        ELSE IF c2.raised # "none" THEN Fail(c2.raised, s)
        ELSE IF user.kind # "User" /\ user.s \notin DOMAIN s.users
             THEN Fail("KeyError", s)
        ELSE IF group.kind # "Group" /\ group.s \notin DOMAIN s.groups
             THEN Fail("KeyError", s)
        ELSE LET u == IF user.kind = "User" THEN user ELSE s.users[user.s]
                 g == IF group.kind = "Group" THEN group
                      ELSE GroupRef(s, s.groups[group.s])
             IN  Done(GroupAddUser(s, g, u))

\* add_permission that drops the permissions registered before
AddPermissionAlone(s, pname, plevel) ==
    LET permission == Permission(pname, plevel) IN
    Done([s EXCEPT !.permissions =
                      DictSet(EmptyDict, PermissionStr(permission), permission)])

\* RBAC.add_permission
AddPermission(s, pname, plevel) ==
    LET permission == Permission(pname, plevel) IN
    Done([s EXCEPT !.permissions = DictSet(@, PermissionStr(permission), permission)])

\* get_permission that registers a Permission object it does not find
GetPermissionOrRegister(s, permission) ==
    LET c == CheckPermission(s, permission) IN
    IF c.raised # "none" /\ permission.kind = "Permission"
    THEN [raised |-> "none", ret |-> permission,
          st |-> [s EXCEPT !.permissions =
                             DictSet(@, PermissionStr(permission), permission)]]
    ELSE IF c.raised # "none" THEN c
    ELSE IF permission.kind = "Permission" THEN Return(permission)
    ELSE IF permission.s \in DOMAIN s.permissions
         THEN Return(s.permissions[permission.s])
         ELSE Raise("KeyError")

\* RBAC.get_permission
GetPermission(s, permission) ==
    LET c == CheckPermission(s, permission) IN
    IF c.raised # "none" THEN c
    ELSE IF permission.kind = "Permission" THEN Return(permission)
    ELSE IF permission.s \in DOMAIN s.permissions
         THEN Return(s.permissions[permission.s])
         ELSE Raise("KeyError")

\* add_role that refuses a name registered already
AddRoleOnce(s, rname) ==
    IF rname \in DOMAIN s.roles THEN Fail("ValueError", s)
    ELSE Done([s EXCEPT !.roleObjs = Append(@, [name |-> rname, permissions |-> EmptyDict]),
                        !.roles = DictSet(@, rname, Len(s.roleObjs) + 1)])

\* RBAC.add_role
AddRole(s, rname) ==
    Done([s EXCEPT !.roleObjs = Append(@, [name |-> rname, permissions |-> EmptyDict]),
                   !.roles = DictSet(@, rname, Len(s.roleObjs) + 1)])

\* RBAC.get_role
GetRole(s, role) ==
    LET c == CheckRole(s, role) IN
    IF c.raised # "none" THEN c
    ELSE IF role.kind = "Role" THEN Return(role)
    ELSE IF role.s \in DOMAIN s.roles
         THEN Return(RoleRef(s, s.roles[role.s]))
         ELSE Raise("KeyError")

\* add_permission_to_role that attaches to every Role object of the name,
\* the replaced ones included
AddPermissionToRoleOfName(s, permission, role) ==
    LET p == GetPermission(s, permission) IN
    IF p.raised # "none" THEN Fail(p.raised, s)
    ELSE LET r == GetRole(s, role) IN
         IF r.raised # "none" THEN Fail(r.raised, s)
         ELSE Done([s EXCEPT !.roleObjs =
                      [id \in DOMAIN @ |->
                         IF @[id].name = r.ret.name
                         THEN [@[id] EXCEPT !.permissions =
                                 DictSet(@, PermissionStr(p.ret), p.ret)]
                         ELSE @[id]]])

\* RBAC.add_permission_to_role
AddPermissionToRole(s, permission, role) ==
    LET p == GetPermission(s, permission) IN
    IF p.raised # "none" THEN Fail(p.raised, s)
    ELSE LET r == GetRole(s, role) IN
         IF r.raised # "none" THEN Fail(r.raised, s)
         ELSE Done(AttachPermission(s, r.ret, p.ret))

\* an append that forgets what the list under the key held
DictAppendAlone(d, key, item) == DictSet(d, key, <<item>>)

\* dict[key].append(item), after dict[key] = [] when the key is new
DictAppend(d, key, item) ==
    DictSet(d, key, Append(IF key \in DOMAIN d THEN d[key] ELSE <<>>, item))

\* add_role_to_entity that refuses a pair which is bound already
AddRoleToEntityOnce(s, role, entity) ==
    LET e == GetEntity(s, entity) IN
    IF e.raised # "none" THEN Fail(e.raised, s)
    ELSE LET r == GetRole(s, role) IN
         IF r.raised # "none" THEN Fail(r.raised, s)
         ELSE LET rbind == [entity |-> e.ret, role |-> r.ret.id] IN
              IF /\ e.ret.name \in DOMAIN s.rbind_to_ent
                 /\ rbind \in Range(s.rbind_to_ent[e.ret.name])
              THEN Fail("ValueError", s)
              ELSE Done([s EXCEPT
                           !.rbind_to_ent = DictAppend(@, e.ret.name, rbind),
                           !.rbind_to_role = DictAppend(@, r.ret.name, rbind)])

\* RBAC.add_role_to_entity
AddRoleToEntity(s, role, entity) ==
    LET e == GetEntity(s, entity) IN
    IF e.raised # "none" THEN Fail(e.raised, s)
    ELSE LET r == GetRole(s, role) IN
         IF r.raised # "none" THEN Fail(r.raised, s)
         ELSE LET rbind == [entity |-> e.ret, role |-> r.ret.id] IN
              Done([s EXCEPT
                      !.rbind_to_ent = DictAppend(@, e.ret.name, rbind),
                      !.rbind_to_role = DictAppend(@, r.ret.name, rbind)])

\* RBAC._get_flattened_entities
GetFlattenedEntities(s, entity) ==
    IF entity.kind = "Group" THEN <<entity.name>>
    ELSE IF entity.kind = "User"
    THEN LET grs == DictValues(s.groups)
             member == SelectSeq(grs,
                           LAMBDA id : HasEntity(s.groupObjs[id], entity).ret.b)
         IN  Append([i \in DOMAIN member |-> s.groupObjs[member[i]].name], entity.name)
    ELSE <<>>

\* RBAC.get_entity_permissions
GetEntityPermissions(s, entity) ==
    LET e == GetEntity(s, entity) IN
    IF e.raised # "none" THEN e
    ELSE LET ent_reprs == GetFlattenedEntities(s, e.ret)
             OfBinding(rbind) == DictValues(s.roleObjs[rbind.role].permissions)
             OfEntity(ent) ==
                 IF ent \in DOMAIN s.rbind_to_ent
                 THEN Concat([i \in DOMAIN s.rbind_to_ent[ent] |->
                                  OfBinding(s.rbind_to_ent[ent][i])])
                 ELSE <<>>
         IN  Return(List(Concat([i \in DOMAIN ent_reprs |-> OfEntity(ent_reprs[i])])))

\* RBAC.get_entity_roles
GetEntityRoles(s, entity) ==
    LET e == GetEntity(s, entity) IN
    IF e.raised # "none" THEN e
    ELSE LET ent_reprs == GetFlattenedEntities(s, e.ret)
             OfEntity(ent) ==
                 IF ent \in DOMAIN s.rbind_to_ent
                 THEN [i \in DOMAIN s.rbind_to_ent[ent] |->
                          RoleRef(s, s.rbind_to_ent[ent][i].role)]
                 ELSE <<>>
         IN  Return(List(Concat([i \in DOMAIN ent_reprs |-> OfEntity(ent_reprs[i])])))

\* can_entity_do with the entity resolved before the level is looked at
CanEntityDoResolvesFirst(s, entity, permission) ==
    LET p == GetPermission(s, permission) IN
    IF p.raised # "none" THEN p @@ [lookups |-> <<"get_permission">>]
    ELSE LET e == GetEntity(s, entity) IN
         IF e.raised # "none" THEN e @@ [lookups |-> <<"get_permission", "get_entity">>]
         ELSE IF p.ret.level = NONE
              THEN Return(Bool(TRUE)) @@ [lookups |-> <<"get_permission", "get_entity">>]
         ELSE LET held == GetEntityPermissions(s, e.ret)
                  all == <<"get_permission", "get_entity", "get_entity_permissions">>
              IN  IF held.raised # "none" THEN held @@ [lookups |-> all]
                  ELSE Return(Bool(\E i \in DOMAIN held.ret.items :
                                       PermissionEq(held.ret.items[i], p.ret)))
                       @@ [lookups |-> all]

\* RBAC.can_entity_do.  lookups lists the resolutions the call went through.
CanEntityDo(s, entity, permission) ==
    LET p == GetPermission(s, permission) IN
    IF p.raised # "none" THEN p @@ [lookups |-> <<"get_permission">>]
    ELSE IF p.ret.level = NONE
         THEN Return(Bool(TRUE)) @@ [lookups |-> <<"get_permission">>]
    ELSE LET e == GetEntity(s, entity) IN
         IF e.raised # "none" THEN e @@ [lookups |-> <<"get_permission", "get_entity">>]
         ELSE LET held == GetEntityPermissions(s, e.ret)
                  all == <<"get_permission", "get_entity", "get_entity_permissions">>
              IN  IF held.raised # "none" THEN held @@ [lookups |-> all]
                  ELSE Return(Bool(\E i \in DOMAIN held.ret.items :
                                       PermissionEq(held.ret.items[i], p.ret)))
                       @@ [lookups |-> all]

-----------------------------------------------------------------------------
(* The access guard.  A callable is taken by the attributes the guard reads: *)
(* the permission attached to it (NoneValue: no attribute) and the          *)
(* pass-entity flag.  The results say whether the callable was invoked.     *)

Callable(permission, pass_entity) ==
    [kind |-> "Callable", permission |-> permission, pass_entity |-> pass_entity]

\* rbac_can_entity_do
RbacCanEntityDo(s, fun, entity, permission) ==
    LET perm == IF permission # NoneValue THEN permission ELSE fun.permission IN
    IF perm = NoneValue THEN Raise("RBACNotFound")
    ELSE IF perm.level = NONE THEN Return(Bool(TRUE))
    ELSE LET e == GetEntity(s, entity) IN
         IF e.raised # "none" THEN e
         ELSE LET d == CanEntityDo(s, e.ret, perm) IN
              [raised |-> d.raised, ret |-> d.ret]

\* rbac_call_predicate
RbacCallPredicate(s, ent, fun, perm) ==
    LET e == GetEntity(s, ent) IN
    IF e.raised # "none" THEN e
    ELSE IF fun.permission = NoneValue /\ perm = NoneValue
         THEN Raise("RBACNotFound")
    ELSE LET d == RbacCanEntityDo(s, fun, e.ret, perm) IN
         IF d.raised # "none" THEN d
         ELSE IF ~d.ret.b
              THEN LET held == GetEntityPermissions(s, e.ret) IN
                   IF held.raised # "none" THEN held ELSE Raise("AccessDenied")
              ELSE Return(NoneValue)

\* fun(*args, **kwargs): the callable is invoked with these arguments and
\* returns
Invoke(fun, args, kwargs) ==
    [raised |-> "none", ret |-> Bool(TRUE), invoked |-> TRUE,
     args |-> args, kwargs |-> kwargs]

\* rbac_execute that hands the entity down whatever the flag says
RbacExecuteAlwaysPasses(s, entity, fun, args, obj, kwargs) ==
    LET p == RbacCallPredicate(s, entity, fun, NoneValue) IN
    IF p.raised # "none" THEN p
    ELSE Invoke(fun, IF obj # NoneValue THEN <<obj>> \o args ELSE args,
                DictSet(kwargs, "entity", entity))

\* rbac_execute(entity, fun, *args, obj=obj, **kwargs)
RbacExecute(s, entity, fun, args, obj, kwargs) ==
    LET p == RbacCallPredicate(s, entity, fun, NoneValue) IN
    IF p.raised # "none" THEN p
    ELSE Invoke(fun, IF obj # NoneValue THEN <<obj>> \o args ELSE args,
                IF fun.pass_entity = Bool(TRUE)
                THEN DictSet(kwargs, "entity", entity) ELSE kwargs)

\* rbac(fun, obj)(*args, **kwargs)
RbacWrapperFun(s, fun, obj, args, kwargs) ==
    IF "entity" \notin DOMAIN kwargs /\ Len(args) = 0
    THEN Raise("RBACMissingEntity")
    ELSE LET byKeyword == "entity" \in DOMAIN kwargs
             entity == IF byKeyword THEN kwargs["entity"] ELSE args[1]
             restArgs == IF byKeyword THEN args ELSE Tail(args)
             restKwargs == IF byKeyword
                           THEN [k \in DOMAIN kwargs \ {"entity"} |-> kwargs[k]]
                           ELSE kwargs
         IN RbacExecute(s, entity, fun, restArgs, obj, restKwargs)

-----------------------------------------------------------------------------
(* rbac_config *)

\* PermissionType[name]
PermissionTypeByName(name) ==
    IF \E level \in PermissionType : LevelName(level) = name
    THEN Return(CHOOSE level \in PermissionType : LevelName(level) = name)
    ELSE Raise("KeyError")

\* conf.get(key, []), for a dict given as its items in the order of its keys
ConfGet(conf, key) ==
    IF \E i \in DOMAIN conf : conf[i][1] = key
    THEN conf[CHOOSE i \in DOMAIN conf : conf[i][1] = key][2]
    ELSE <<>>

\* The order of the loops of rbac_config
ConfigOrder ==
    <<"roles", "permissions", "users", "groups", "role_bindings",
      "user_to_group", "permissions_to_roles">>

\* The items that the loops of rbac_config go through, in that order
ConfigItems(conf) ==
    Concat([i \in DOMAIN ConfigOrder |->
              [j \in DOMAIN ConfGet(conf, ConfigOrder[i]) |->
                  [section |-> ConfigOrder[i],
                   item |-> ConfGet(conf, ConfigOrder[i])[j]]]])

\* The body of the loop over a section
ConfigCall(s, section, item) ==
    CASE section = "roles" -> AddRole(s, item)
      [] section = "permissions" ->
            LET level == PermissionTypeByName(item.level) IN
            IF level.raised # "none" THEN Fail(level.raised, s)
            ELSE AddPermission(s, item.name, level.ret)
      [] section = "users" -> AddUser(s, item)
      [] section = "groups" -> AddGroup(s, item)
      [] section = "role_bindings" ->
            AddRoleToEntity(s, Str(item.role), Str(item.entity))
      [] section = "user_to_group" ->
            AddUserToGroup(s, Str(item.user), Str(item.group))
      [] section = "permissions_to_roles" ->
            AddPermissionToRole(s, Str(item.permission), Str(item.role))

\* Loops that go on with the entries after the one that raised
RECURSIVE RunConfigGoesOn(_, _)
RunConfigGoesOn(res, items) ==
    IF items = <<>> THEN res
    ELSE LET r == ConfigCall(res.st, Head(items).section, Head(items).item) IN
         RunConfigGoesOn(IF res.raised # "none" THEN Fail(res.raised, r.st) ELSE r,
                         Tail(items))

\* The loops, left at the first call that raises
RECURSIVE RunConfig(_, _)
RunConfig(res, items) ==
    IF res.raised # "none" \/ items = <<>> THEN res
    ELSE RunConfig(ConfigCall(res.st, Head(items).section, Head(items).item),
                   Tail(items))

\* rbac_config(conf)
RbacConfig(s, conf) == RunConfig(Done(s), ConfigItems(conf))

-----------------------------------------------------------------------------
(* The calls a client makes *)

RECURSIVE SumLen(_, _)
SumLen(d, keys) ==
    IF keys = {} THEN 0
    ELSE LET k == CHOOSE k \in keys : TRUE IN Len(d[k]) + SumLen(d, keys \ {k})

RECURSIVE SumCard(_, _)
SumCard(objs, i) ==
    IF i = 0 THEN 0
    ELSE Cardinality(DOMAIN (IF "users" \in DOMAIN objs[i]
                             THEN objs[i].users ELSE objs[i].permissions))
         + SumCard(objs, i - 1)

\* The number of items the authority stores
Size(s) ==
    Cardinality(DOMAIN s.users) + Cardinality(DOMAIN s.permissions)
    + Len(s.groupObjs) + Len(s.roleObjs)
    + SumCard(s.groupObjs, Len(s.groupObjs)) + SumCard(s.roleObjs, Len(s.roleObjs))
    + SumLen(s.rbind_to_ent, DOMAIN s.rbind_to_ent)

UnameInputs == {<<"a">>, <<"b">>, <<"user", "a">>}
GnameInputs == {<<"a">>, <<"b">>, <<"group", "b">>, <<"a\n">>}
RnameInputs == {<<"r">>}
PermissionInputs ==
    {Permission("x", NONE), Permission("x", READ), Permission("x", WRITE),
     Permission("y", READ)}

\* What a caller passes for an entity: a bare name, a prefixed name, a User
\* object, or a Group object it got from the authority
EntityArgs(s) ==
    {Str(<<"a">>), Str(<<"b">>), Str(<<"user", "a">>), Str(<<"group", "b">>),
     UserNew(<<"a">>).ret}
    \cup {GroupRef(s, id) : id \in DOMAIN s.groupObjs}

UserArgs == {Str(<<"a">>), Str(<<"b">>), UserNew(<<"a">>).ret}

GroupArgs(s) ==
    {Str(<<"a">>), Str(<<"b">>)} \cup {GroupRef(s, id) : id \in DOMAIN s.groupObjs}

\* What a caller passes for a permission: its "name:LEVEL" key or the object
PermissionArgs ==
    {Str(PermissionStr(p)) : p \in PermissionInputs} \cup {Permission("x", WRITE)}

\* What a caller passes for a role: its name or a Role object it got
RoleArgs(s) ==
    {Str(rname) : rname \in RnameInputs} \cup {RoleRef(s, id) : id \in DOMAIN s.roleObjs}

NoCall ==
    [op |-> "none", args |-> <<>>, raised |-> "none", ret |-> NoneValue,
     lookups |-> <<>>, invoked |-> FALSE, handed |-> NoneValue]

Call(op, args, result) ==
    [op |-> op, args |-> args, raised |-> result.raised, ret |-> result.ret,
     lookups |-> IF "lookups" \in DOMAIN result THEN result.lookups ELSE <<>>,
     invoked |-> "invoked" \in DOMAIN result,
     handed |-> IF "invoked" \in DOMAIN result
                THEN [args |-> result.args, kwargs |-> result.kwargs]
                ELSE NoneValue]

\* A call that writes: its outcome is recorded and the authority replaced.
\* The client makes one call at a time: it takes the outcome of a call
\* (TakeOutcome) before it makes the next one.
Write(op, args, result) ==
    /\ last = NoCall
    /\ workload = 0
    /\ UNCHANGED <<th, locks, workload, single, runs, factory>>
    /\ Size(result.st) <= MaxSize
    /\ Len(result.st.roleObjs) <= MaxRoleObjs
    /\ Len(result.st.groupObjs) <= MaxGroupObjs
    /\ rbac' = result.st
    /\ last' = Call(op, args, result)

\* A call that only reads
Read(op, args, result) ==
    /\ last = NoCall
    /\ workload = 0
    /\ UNCHANGED <<th, locks, workload, single, runs, factory>>
    /\ rbac' = rbac
    /\ last' = Call(op, args, result)

\* The thread that sets the authority up, and the threads it then starts
Main == "main"
Workers == {"t1", "t2"}
Threads == {Main} \cup Workers

IdleThread ==
    [prog |-> <<>>, op |-> "idle", args |-> <<>>, stage |-> "none",
     inside |-> FALSE, loc |-> <<>>, could |-> {}, out |-> <<>>]

\* The classes whose metaclass is SingletonController and whose constructor
\* returns
Classes == {"RBAC", "Singleton1"}

\* A class of the metaclass whose constructor raises for some arguments
FailingClasses == {"Failing"}

\* A thread outside of SingletonController.__call__
OutsideCall == [cls |-> "none", pc |-> "out", first |-> FALSE, got |-> <<>>]

\* SingletonController._instance = {}, _lock = Lock(); no constructor has run
SingletonInit ==
    [instance |-> EmptyDict, lock |-> "free",
     ran |-> [c \in Classes \cup FailingClasses |-> 0],
     made |-> 0, types |-> EmptyDict, raised |-> [t \in Threads |-> 0],
     at |-> [t \in Threads |-> OutsideCall]]

\* No set of calls is being made in two orders
NoRuns == [calls |-> {}, left |-> {}, right |-> {}, other |-> RBACInit]

\* Factory.__init__: no builders, the default key is the empty str
FactoryInit == [builders |-> EmptyDict, default |-> ""]

Init ==
    /\ rbac = RBACInit
    /\ last = NoCall
    /\ th = [t \in Threads |-> IdleThread]
    /\ locks = {}
    /\ workload = 0
    /\ single = SingletonInit
    /\ runs = NoRuns
    /\ factory = FactoryInit

DoAddUser ==
    \E uname \in UnameInputs :
        Write("add_user", <<Str(uname)>>, AddUser(rbac, uname))

DoAddGroup ==
    \E gname \in GnameInputs :
        Write("add_group", <<Str(gname)>>, AddGroup(rbac, gname))

DoAddPermission ==
    \E p \in PermissionInputs :
        Write("add_permission", <<p>>, AddPermission(rbac, p.name, p.level))

DoAddRole ==
    \E rname \in RnameInputs :
        Write("add_role", <<Str(rname)>>, AddRole(rbac, rname))

DoAddUserToGroup ==
    \E user \in UserArgs, group \in GroupArgs(rbac) :
        Write("add_user_to_group", <<user, group>>, AddUserToGroup(rbac, user, group))

DoAddPermissionToRole ==
    \E permission \in PermissionArgs, role \in RoleArgs(rbac) :
        Write("add_permission_to_role", <<permission, role>>,
              AddPermissionToRole(rbac, permission, role))

DoAddRoleToEntity ==
    \E role \in RoleArgs(rbac), entity \in EntityArgs(rbac) :
        Write("add_role_to_entity", <<role, entity>>,
              AddRoleToEntity(rbac, role, entity))

DoGetEntity ==
    \E entity \in EntityArgs(rbac) :
        Read("get_entity", <<entity>>, GetEntity(rbac, entity))

DoGetPermission ==
    \E permission \in PermissionArgs :
        Read("get_permission", <<permission>>, GetPermission(rbac, permission))

DoGetRole ==
    \E role \in RoleArgs(rbac) :
        Read("get_role", <<role>>, GetRole(rbac, role))

\* role.can_do(permission) on a Role object that the client got
DoRoleCanDo ==
    \E id \in DOMAIN rbac.roleObjs,
       permission \in {Permission("x", READ), Permission("x", WRITE), Permission("y", READ)} :
        Read("can_do", <<RoleRef(rbac, id), permission>>,
             RoleCanDo(rbac, RoleRef(rbac, id), permission))

DoGetEntityRoles ==
    \E entity \in EntityArgs(rbac) :
        Read("get_entity_roles", <<entity>>, GetEntityRoles(rbac, entity))

DoCanEntityDo ==
    \E entity \in EntityArgs(rbac), permission \in PermissionArgs :
        Read("can_entity_do", <<entity, permission>>,
             CanEntityDo(rbac, entity, permission))

\* The guard is exercised on authorities of up to MaxGuardSize stored items
GuardOpen == last = NoCall /\ Size(rbac) <= MaxGuardSize

\* The callables that are guarded: without a permission, with one of level
\* NONE (pass-entity flag true, false, not set), with one of level READ
Callables ==
    {Callable(NoneValue, NoneValue),
     Callable(Permission("x", NONE), Bool(TRUE)),
     Callable(Permission("x", NONE), Bool(FALSE)),
     Callable(Permission("x", NONE), NoneValue),
     Callable(Permission("x", READ), Bool(FALSE))}

\* The acting entity as a caller gives it: bare name, prefixed name, object,
\* None
ActingEntities ==
    {Str(<<"a">>), Str(<<"user", "a">>), UserNew(<<"a">>).ret, NoneValue}

DoRbacCanEntityDo ==
    /\ GuardOpen
    /\ \E fun \in Callables, entity \in ActingEntities :
          Read("rbac_can_entity_do", <<fun, entity>>,
               RbacCanEntityDo(rbac, fun, entity, NoneValue))

DoRbacCallPredicate ==
    /\ GuardOpen
    /\ \E ent \in ActingEntities, fun \in Callables :
          Read("rbac_call_predicate", <<ent, fun>>,
               RbacCallPredicate(rbac, ent, fun, NoneValue))

DoRbacExecute ==
    /\ GuardOpen
    /\ \E entity \in ActingEntities, fun \in Callables :
          Read("rbac_execute", <<entity, fun>>,
               RbacExecute(rbac, entity, fun, <<>>, NoneValue, EmptyDict))

\* The ways a wrapped callable is called: rbac(fun)(entity=...),
\* rbac(fun)(entity), rbac(fun)(), and with further arguments
\* rbac(fun)(1, 2, entity=..., k=3), rbac(fun, obj)(entity, 1, 2, k=3)
WrapperCalls ==
    {[obj |-> NoneValue, args |-> <<>>, kwargs |-> "entity" :> e] :
        e \in ActingEntities}
    \cup {[obj |-> NoneValue, args |-> <<e>>, kwargs |-> EmptyDict] :
             e \in ActingEntities}
    \cup {[obj |-> NoneValue, args |-> <<>>, kwargs |-> EmptyDict]}
    \cup {[obj |-> NoneValue, args |-> <<Str(<<"1">>), Str(<<"2">>)>>,
           kwargs |-> ("entity" :> Str(<<"a">>)) @@ ("k" :> Str(<<"3">>))],
          [obj |-> Str(<<"self">>),
           args |-> <<Str(<<"a">>), Str(<<"1">>), Str(<<"2">>)>>,
           kwargs |-> "k" :> Str(<<"3">>)]}

DoRbac ==
    /\ GuardOpen
    /\ \E fun \in Callables, c \in WrapperCalls :
          Read("rbac", <<fun, c.args, c.kwargs, c.obj>>,
               RbacWrapperFun(rbac, fun, c.obj, c.args, c.kwargs))

\* The sections of a configuration of one role, permission, user and group,
\* bound to each other, with the bound entity written as given
ConfigSections(entity) ==
    <<  <<"roles", << <<"r">> >> >>,
        <<"permissions", << [name |-> "x", level |-> "READ"] >> >>,
        <<"users", << <<"a">> >> >>,
        <<"groups", << <<"b">> >> >>,
        <<"role_bindings", << [role |-> <<"r">>, entity |-> entity] >> >>,
        <<"user_to_group", << [user |-> <<"a">>, group |-> <<"b">>] >> >>,
        <<"permissions_to_roles",
          << [permission |-> <<"x", "READ">>, role |-> <<"r">>] >> >>  >>

\* The same items with the keys the other way round
Reversed(seq) == [i \in DOMAIN seq |-> seq[Len(seq) + 1 - i]]

\* The configurations that are loaded: the entity of the binding prefixed or
\* bare, keys in the order of the loops or reversed, some keys left out, a
\* user with an invalid name between two valid ones and a membership in a
\* group that is not declared
ConfigInputs ==
    {ConfigSections(<<"user", "a">>), Reversed(ConfigSections(<<"user", "a">>)),
     <<  <<"roles", << <<"r">> >> >>,
         <<"users", << <<"a">>, <<"user", "a">>, <<"b">> >> >>,
         <<"groups", << <<"b">> >> >>,
         <<"user_to_group", << [user |-> <<"a">>, group |-> <<"a">>] >> >>  >>,
     ConfigSections(<<"a">>), Reversed(ConfigSections(<<"a">>)),
     <<  <<"user_to_group", << [user |-> <<"a">>, group |-> <<"b">>] >> >>,
         <<"groups", << <<"b">> >> >>,
         <<"users", << <<"a">> >> >>  >>}

DoRbacConfig ==
    /\ Size(rbac) <= MaxConfigSize
    /\ \E conf \in ConfigInputs :
          Write("rbac_config", <<conf>>, RbacConfig(rbac, conf))

TakeOutcome ==
    /\ last # NoCall
    /\ last' = NoCall
    /\ UNCHANGED <<rbac, th, locks, workload, single, runs, factory>>

Next ==
    \/ TakeOutcome
    \/ DoAddUser
    \/ DoAddGroup
    \/ DoAddPermission
    \/ DoAddRole
    \/ DoAddUserToGroup
    \/ DoAddPermissionToRole
    \/ DoAddRoleToEntity
    \/ DoGetEntity
    \/ DoGetPermission
    \/ DoGetRole
    \/ DoGetEntityRoles
    \/ DoRoleCanDo
    \/ DoCanEntityDo
    \/ DoRbacCanEntityDo
    \/ DoRbacCallPredicate
    \/ DoRbacExecute
    \/ DoRbac
    \/ DoRbacConfig

Spec == Init /\ [][Next]_vars

-----------------------------------------------------------------------------
(* Threads.  A call is a sequence of critical sections: a thread takes the  *)
(* section's lock (ThreadAcquire), then runs the section and leaves it in   *)
(* one step.  Main makes its calls first; the workers start when it is done.*)

RbacLock == <<"rbac", 0>>        \* RBAC._lock
GroupLock(id) == <<"group", id>> \* Group._lock (Entity._lock) of groupObjs[id]
RoleLock(id) == <<"role", id>>   \* Role._lock of roleObjs[id]

C(op, args) == [op |-> op, args |-> args]

\* The programs: what Main registers one call after the other, and the calls
\* each worker then makes
Workloads ==
    << \* two bindings race with the re-registration of the group and the role
       [main |-> << C("add_user", <<Str(<<"a">>)>>),
                    C("add_group", <<Str(<<"b">>)>>),
                    C("add_user_to_group", <<Str(<<"a">>), Str(<<"b">>)>>),
                    C("add_permission", <<Permission("x", READ)>>),
                    C("add_role", <<Str(<<"r">>)>>),
                    C("add_permission_to_role", <<Str(<<"x", "READ">>), Str(<<"r">>)>>) >>,
        workers |-> [t1 |-> << C("add_role_to_entity", <<Str(<<"r">>), Str(<<"b">>)>>) >>,
                     t2 |-> << C("add_group", <<Str(<<"b">>)>>),
                          C("add_role_to_entity", <<Str(<<"r">>), Str(<<"b">>)>>),
                          C("add_role", <<Str(<<"r">>)>>) >>]],
       \* a read of a user's permissions races with two bindings
       [main |-> << C("add_user", <<Str(<<"a">>)>>),
                    C("add_group", <<Str(<<"b">>)>>),
                    C("add_user_to_group", <<Str(<<"a">>), Str(<<"b">>)>>),
                    C("add_permission", <<Permission("x", READ)>>),
                    C("add_permission", <<Permission("y", READ)>>),
                    C("add_role", <<Str(<<"r">>)>>),
                    C("add_role", <<Str(<<"s">>)>>),
                    C("add_permission_to_role", <<Str(<<"x", "READ">>), Str(<<"r">>)>>),
                    C("add_permission_to_role", <<Str(<<"y", "READ">>), Str(<<"s">>)>>) >>,
        workers |-> [t1 |-> << C("get_entity_permissions", <<Str(<<"a">>)>>) >>,
                     t2 |-> << C("add_role_to_entity", <<Str(<<"r">>), Str(<<"b">>)>>),
                          C("add_role_to_entity", <<Str(<<"s">>), Str(<<"a">>)>>) >>]],
       \* registrations of every kind race with each other
       [main |-> << C("add_group", <<Str(<<"b">>)>>),
                    C("add_role", <<Str(<<"r">>)>>) >>,
        workers |-> [t1 |-> << C("add_user", <<Str(<<"a">>)>>),
                          C("add_user_to_group", <<Str(<<"a">>), Str(<<"b">>)>>),
                          C("add_role_to_entity", <<Str(<<"r">>), Str(<<"a">>)>>) >>,
                     t2 |-> << C("add_permission", <<Permission("x", WRITE)>>),
                          C("add_permission_to_role", <<Permission("x", WRITE), Str(<<"r">>)>>),
                          C("add_user", <<Str(<<"a">>)>>) >>]],
       \* a read of a user's permissions races with an attachment to its role
       [main |-> << C("add_user", <<Str(<<"a">>)>>),
                    C("add_permission", <<Permission("x", READ)>>),
                    C("add_role", <<Str(<<"r">>)>>),
                    C("add_role_to_entity", <<Str(<<"r">>), Str(<<"a">>)>>) >>,
        workers |-> [t1 |-> << C("get_entity_permissions", <<Str(<<"a">>)>>) >>,
                     t2 |-> << C("add_permission_to_role", <<Str(<<"x", "READ">>), Str(<<"r">>)>>) >>]],
       \* calls that raise inside and outside of a with-block race with a
       \* membership and with the walk of the groups
       [main |-> << C("add_user", <<Str(<<"a">>)>>),
                    C("add_group", <<Str(<<"b">>)>>) >>,
        workers |-> [t1 |-> << C("add_user", <<Str(<<"user", "a">>)>>),
                          C("add_user_to_group", <<Str(<<"a">>), Str(<<"b">>)>>) >>,
                     t2 |-> << C("get_entity_permissions", <<Str(<<"a">>)>>),
                          C("add_user_to_group", <<Str(<<"a">>), Str(<<"c">>)>>),
                          C("get_entity_permissions", <<Str(<<"c">>)>>) >>]]
    >>

\* The first critical section of a call
Entry(op) ==
    CASE op \in {"add_user", "add_group", "add_permission", "add_role"} -> "set"
      [] op = "add_user_to_group" -> "check_user"
      [] op = "add_permission_to_role" -> "check_permission"
      [] op \in {"add_role_to_entity", "get_entity_permissions"} -> "check_entity"

\* The lock of the critical section a thread is at
LockOf(f) ==
    CASE f.stage = "group_add" -> GroupLock(f.loc.group.id)
      [] f.stage = "has_entity" -> GroupLock(f.loc.groups[f.loc.i])
      [] f.stage = "attach" -> RoleLock(f.loc.role.id)
      [] OTHER -> RbacLock

\* The argument a call resolves as entity, as role
EntityArg(f) == IF f.op = "add_role_to_entity" THEN f.args[2] ELSE f.args[1]
RoleArg(f) == IF f.op = "add_role_to_entity" THEN f.args[1] ELSE f.args[2]

Goto(stage, loc) == [kind |-> "goto", stage |-> stage, loc |-> loc]
Fin(result) == [kind |-> "fin", result |-> result]

\* What a section yields: the authority after it, where the call goes on and
\* the locks the thread keeps
Section(st, to, keep) == [st |-> st, to |-> to, keep |-> keep]

\* A read of a user's permissions that is under way sees the authority change
Observe(f, st) ==
    IF f.op = "get_entity_permissions" /\ st # rbac
    THEN [f EXCEPT !.could = @ \cup {GetEntityPermissions(st, f.args[1])}]
    ELSE f

\* Thread t runs the section it is inside of
Run(t, section) ==
    /\ rbac' = section.st
    /\ locks' = {h \in locks : h[2] # t \/ h[1] \in section.keep}
    /\ th' = [u \in Threads |->
                IF u # t THEN Observe(th[u], section.st)
                ELSE IF section.to.kind = "goto"
                     THEN [th[t] EXCEPT !.stage = section.to.stage,
                                        !.inside = FALSE,
                                        !.loc = section.to.loc]
                     ELSE [IdleThread EXCEPT
                             !.prog = th[t].prog,
                             !.out = Append(th[t].out,
                                        [op |-> th[t].op, args |-> th[t].args,
                                         raised |-> section.to.result.raised,
                                         ret |-> section.to.result.ret,
                                         could |-> th[t].could])]]
    /\ UNCHANGED <<last, workload, single, runs, factory>>

At(t, ops, stage) ==
    /\ th[t].op \in ops
    /\ th[t].stage = stage
    /\ th[t].inside

\* Main registers the set-up and starts the workers
RunWorkload ==
    /\ workload = 0
    /\ last = NoCall
    /\ rbac = RBACInit
    /\ \E w \in DOMAIN Workloads :
          /\ workload' = w
          /\ th' = [t \in Threads |->
                      [IdleThread EXCEPT
                         !.prog = IF t = Main THEN Workloads[w].main
                                  ELSE Workloads[w].workers[t]]]
    /\ UNCHANGED <<rbac, last, locks, single, runs, factory>>

\* A thread makes its next call
ThreadCall(t) ==
    /\ workload # 0
    /\ th[t].op = "idle"
    /\ th[t].prog # <<>>
    /\ t \in Workers => th[Main].op = "idle" /\ th[Main].prog = <<>>
    /\ LET call == Head(th[t].prog) IN
       th' = [th EXCEPT ![t] =
                [@ EXCEPT !.prog = Tail(@), !.op = call.op, !.args = call.args,
                          !.stage = Entry(call.op), !.inside = FALSE,
                          !.loc = <<>>,
                          !.could = IF call.op = "get_entity_permissions"
                                    THEN {GetEntityPermissions(rbac, call.args[1])}
                                    ELSE {}]]
    /\ UNCHANGED <<rbac, last, locks, workload, single, runs, factory>>

\* with lock: -- the lock is not reentrant
ThreadAcquire(t) ==
    /\ th[t].op # "idle"
    /\ ~th[t].inside
    /\ \A h \in locks : h[1] # LockOf(th[t])
    /\ locks' = locks \cup {<<LockOf(th[t]), t>>}
    /\ th' = [th EXCEPT ![t].inside = TRUE]
    /\ UNCHANGED <<rbac, last, workload, single, runs, factory>>

\* add_user that leaves the with-block without releasing when User() raises
ThreadAddUserKeepsLock(t) ==
    /\ At(t, {"add_user"}, "set")
    /\ LET r == AddUser(rbac, th[t].args[1].s) IN
       Run(t, Section(r.st, Fin(r), IF r.raised = "none" THEN {} ELSE {RbacLock}))

\* add_user: with self._lock: self._users[uname] = User(name=uname)
ThreadAddUser(t) ==
    /\ At(t, {"add_user"}, "set")
    /\ LET r == AddUser(rbac, th[t].args[1].s) IN
       Run(t, Section(r.st, Fin(r), {}))

\* add_group: with self._lock: self._groups[gname] = Group(name=gname)
ThreadAddGroup(t) ==
    /\ At(t, {"add_group"}, "set")
    /\ LET r == AddGroup(rbac, th[t].args[1].s) IN
       Run(t, Section(r.st, Fin(r), {}))

\* add_permission: with self._lock: self._permissions[str(permission)] = permission
ThreadAddPermission(t) ==
    /\ At(t, {"add_permission"}, "set")
    /\ LET r == AddPermission(rbac, th[t].args[1].name, th[t].args[1].level) IN
       Run(t, Section(r.st, Fin(r), {}))

\* add_role: with self._lock: self._roles[rname] = Role(name=rname, permissions={})
ThreadAddRole(t) ==
    /\ At(t, {"add_role"}, "set")
    /\ LET r == AddRole(rbac, th[t].args[1].s) IN
       Run(t, Section(r.st, Fin(r), {}))

\* add_user_to_group: self._check_entity(user)
ThreadCheckUser(t) ==
    /\ At(t, {"add_user_to_group"}, "check_user")
    /\ LET c == CheckEntity(rbac, th[t].args[1]) IN
       Run(t, Section(rbac, IF c.raised # "none" THEN Fin(c)
                            ELSE Goto("check_group", th[t].loc), {}))

\* add_user_to_group: self._check_entity(group)
ThreadCheckGroup(t) ==
    /\ At(t, {"add_user_to_group"}, "check_group")
    /\ LET c == CheckEntity(rbac, th[t].args[2]) IN
       Run(t, Section(rbac, IF c.raised # "none" THEN Fin(c)
                            ELSE Goto("resolve", th[t].loc), {}))

\* add_user_to_group: with self._lock: user = ...; group = ...
ThreadResolveUserAndGroup(t) ==
    /\ At(t, {"add_user_to_group"}, "resolve")
    /\ LET user == th[t].args[1]
           group == th[t].args[2]
       IN  Run(t, Section(rbac,
               IF user.kind # "User" /\ user.s \notin DOMAIN rbac.users
               THEN Fin(Raise("KeyError"))
               ELSE IF group.kind # "Group" /\ group.s \notin DOMAIN rbac.groups
               THEN Fin(Raise("KeyError"))
               ELSE Goto("group_add",
                      [user |-> IF user.kind = "User" THEN user
                                ELSE rbac.users[user.s],
                       group |-> IF group.kind = "Group" THEN group
                                 ELSE GroupRef(rbac, rbac.groups[group.s])]),
               {}))

\* Group.add_user: with self._lock: self.users[user.name] = user
ThreadGroupAddUser(t) ==
    /\ At(t, {"add_user_to_group"}, "group_add")
    /\ Run(t, Section(GroupAddUser(rbac, th[t].loc.group, th[t].loc.user),
                      Fin(Return(NoneValue)), {}))

\* _get_flattened_entities of a Group, or the start of the walk of a User
Flatten(f, loc, entity) ==
    IF entity.kind = "User" THEN Goto("flatten", loc)
    ELSE Goto("read_bindings",
              loc @@ [ent_reprs |-> IF entity.kind = "Group"
                                    THEN <<entity.name>> ELSE <<>>,
                      i |-> 1, permissions |-> <<>>])

\* Where a call goes on with the entity it resolved
AfterEntity(f, entity) ==
    LET loc == [entity |-> entity] IN
    IF f.op = "add_role_to_entity" THEN Goto("check_role", loc)
    ELSE Flatten(f, loc, entity)

\* get_entity: self._check_entity(entity)
ThreadCheckEntity(t) ==
    /\ At(t, {"add_role_to_entity", "get_entity_permissions"}, "check_entity")
    /\ LET entity == EntityArg(th[t])
           c == CheckEntity(rbac, entity)
       IN  Run(t, Section(rbac,
               IF c.raised # "none" THEN Fin(c)
               ELSE IF entity.kind = "str" THEN Goto("resolve_entity", th[t].loc)
               ELSE AfterEntity(th[t], entity), {}))

\* get_entity: with self._lock: return self._users[entity] if ... else self._groups[entity]
ThreadResolveEntity(t) ==
    /\ At(t, {"add_role_to_entity", "get_entity_permissions"}, "resolve_entity")
    /\ LET key == EntityArg(th[t]).s IN
       Run(t, Section(rbac,
           IF key \in DOMAIN rbac.users THEN AfterEntity(th[t], rbac.users[key])
           ELSE IF key \in DOMAIN rbac.groups
                THEN AfterEntity(th[t], GroupRef(rbac, rbac.groups[key]))
                ELSE Fin(Raise("KeyError")), {}))

\* get_permission: self._check_permission(permission)
ThreadCheckPermission(t) ==
    /\ At(t, {"add_permission_to_role"}, "check_permission")
    /\ LET permission == th[t].args[1]
           c == CheckPermission(rbac, permission)
       IN  Run(t, Section(rbac,
               IF c.raised # "none" THEN Fin(c)
               ELSE IF permission.kind = "Permission"
                    THEN Goto("check_role", [permission |-> permission])
                    ELSE Goto("resolve_permission", th[t].loc), {}))

\* get_permission: with self._lock: return self._permissions[permission]
ThreadResolvePermission(t) ==
    /\ At(t, {"add_permission_to_role"}, "resolve_permission")
    /\ LET key == th[t].args[1].s IN
       Run(t, Section(rbac,
           IF key \in DOMAIN rbac.permissions
           THEN Goto("check_role", [permission |-> rbac.permissions[key]])
           ELSE Fin(Raise("KeyError")), {}))

\* Where a call goes on with the role it resolved
AfterRole(f, role) ==
    Goto(IF f.op = "add_permission_to_role" THEN "attach" ELSE "append",
         f.loc @@ [role |-> role])

\* get_role: self._check_role(role)
ThreadCheckRole(t) ==
    /\ At(t, {"add_permission_to_role", "add_role_to_entity"}, "check_role")
    /\ LET role == RoleArg(th[t])
           c == CheckRole(rbac, role)
       IN  Run(t, Section(rbac,
               IF c.raised # "none" THEN Fin(c)
               ELSE IF role.kind = "Role" THEN AfterRole(th[t], role)
               ELSE Goto("resolve_role", th[t].loc), {}))

\* get_role: with self._lock: return self._roles[role]
ThreadResolveRole(t) ==
    /\ At(t, {"add_permission_to_role", "add_role_to_entity"}, "resolve_role")
    /\ LET key == RoleArg(th[t]).s IN
       Run(t, Section(rbac,
           IF key \in DOMAIN rbac.roles
           THEN AfterRole(th[t], RoleRef(rbac, rbac.roles[key]))
           ELSE Fin(Raise("KeyError")), {}))

\* Role.attach_permission: with self._lock: self.permissions[str(permission)] = permission
ThreadAttachPermission(t) ==
    /\ At(t, {"add_permission_to_role"}, "attach")
    /\ Run(t, Section(AttachPermission(rbac, th[t].loc.role, th[t].loc.permission),
                      Fin(Return(NoneValue)), {}))

\* add_role_to_entity: with self._lock: the two appends
ThreadAppendBinding(t) ==
    /\ At(t, {"add_role_to_entity"}, "append")
    /\ LET rbind == [entity |-> th[t].loc.entity, role |-> th[t].loc.role.id] IN
       Run(t, Section(
           [rbac EXCEPT
              !.rbind_to_ent = DictAppend(@, th[t].loc.entity.name, rbind),
              !.rbind_to_role = DictAppend(@, th[t].loc.role.name, rbind)],
           Fin(Return(NoneValue)), {}))

\* _get_flattened_entities of a User: with self._lock: the walk of
\* self._groups.values() begins; the lock is kept while the groups are asked
ThreadFlatten(t) ==
    /\ At(t, {"get_entity_permissions"}, "flatten")
    /\ LET groups == DictValues(rbac.groups) IN
       Run(t, IF groups = <<>>
              THEN Section(rbac,
                     Goto("read_bindings",
                          th[t].loc @@ [ent_reprs |-> <<th[t].loc.entity.name>>,
                                        i |-> 1, permissions |-> <<>>]), {})
              ELSE Section(rbac,
                     Goto("has_entity",
                          th[t].loc @@ [groups |-> groups, i |-> 1, names |-> <<>>]),
                     {RbacLock}))

\* Group.has_entity: with self._lock: return entity.name in self.users;
\* after the last group the walk ends and RBAC._lock is released
ThreadHasEntity(t) ==
    /\ At(t, {"get_entity_permissions"}, "has_entity")
    /\ LET loc == th[t].loc
           group == rbac.groupObjs[loc.groups[loc.i]]
           names == IF HasEntity(group, loc.entity).ret.b
                    THEN Append(loc.names, group.name) ELSE loc.names
       IN  Run(t, IF loc.i < Len(loc.groups)
                  THEN Section(rbac,
                         Goto("has_entity",
                              [loc EXCEPT !.i = @ + 1, !.names = names]),
                         {RbacLock})
                  ELSE Section(rbac,
                         Goto("read_bindings",
                              [entity |-> loc.entity,
                               ent_reprs |-> Append(names, loc.entity.name),
                               i |-> 1, permissions |-> <<>>]), {}))

\* get_entity_permissions: for ent in ent_reprs: with self._lock: ...extend(...)
ThreadReadBindings(t) ==
    /\ At(t, {"get_entity_permissions"}, "read_bindings")
    /\ LET loc == th[t].loc
           ent == loc.ent_reprs[loc.i]
           found == IF ent \in DOMAIN rbac.rbind_to_ent
                    THEN Concat([k \in DOMAIN rbac.rbind_to_ent[ent] |->
                            DictValues(rbac.roleObjs[rbac.rbind_to_ent[ent][k].role]
                                           .permissions)])
                    ELSE <<>>
           permissions == loc.permissions \o found
       IN  Run(t, Section(rbac,
               IF loc.i < Len(loc.ent_reprs)
               THEN Goto("read_bindings",
                         [loc EXCEPT !.i = @ + 1, !.permissions = permissions])
               ELSE Fin(Return(List(permissions))), {}))


\* The mappings a thread touches in the critical section it is inside of
\* (<<"users", 0>> of the authority, <<"users of", id>> of a group), and how
Access(f) ==
    LET stores == {<<<<"users", 0>>, "r">>, <<<<"groups", 0>>, "r">>} IN
    CASE ~f.inside -> {}
      [] f.stage = "set" ->
            {<<<<CASE f.op = "add_user" -> "users"
                   [] f.op = "add_group" -> "groups"
                   [] f.op = "add_permission" -> "permissions"
                   [] f.op = "add_role" -> "roles", 0>>, "w">>}
      [] f.stage \in {"check_user", "check_group", "resolve",
                      "check_entity", "resolve_entity"} -> stores
      [] f.stage \in {"check_permission", "resolve_permission"} ->
            {<<<<"permissions", 0>>, "r">>}
      [] f.stage \in {"check_role", "resolve_role"} -> {<<<<"roles", 0>>, "r">>}
      [] f.stage = "group_add" -> {<<<<"users of", f.loc.group.id>>, "w">>}
      [] f.stage = "attach" -> {<<<<"permissions of", f.loc.role.id>>, "w">>}
      [] f.stage = "append" -> {<<<<"bindings", 0>>, "w">>}
      [] f.stage = "flatten" -> {<<<<"groups", 0>>, "r">>}
      [] f.stage = "has_entity" ->
            {<<<<"groups", 0>>, "r">>, <<<<"users of", f.loc.groups[f.loc.i]>>, "r">>}
      [] f.stage = "read_bindings" ->
            LET ent == f.loc.ent_reprs[f.loc.i] IN
            {<<<<"bindings", 0>>, "r">>} \cup
            (IF ent \in DOMAIN rbac.rbind_to_ent
             THEN {<<<<"permissions of", rbac.rbind_to_ent[ent][k].role>>, "r">> :
                      k \in DOMAIN rbac.rbind_to_ent[ent]}
             ELSE {})

ThreadNext(t) ==
    \/ ThreadCall(t)
    \/ ThreadAcquire(t)
    \/ ThreadAddUser(t)
    \/ ThreadAddGroup(t)
    \/ ThreadAddPermission(t)
    \/ ThreadAddRole(t)
    \/ ThreadCheckUser(t)
    \/ ThreadCheckGroup(t)
    \/ ThreadResolveUserAndGroup(t)
    \/ ThreadGroupAddUser(t)
    \/ ThreadCheckEntity(t)
    \/ ThreadResolveEntity(t)
    \/ ThreadCheckPermission(t)
    \/ ThreadResolvePermission(t)
    \/ ThreadCheckRole(t)
    \/ ThreadResolveRole(t)
    \/ ThreadAttachPermission(t)
    \/ ThreadAppendBinding(t)
    \/ ThreadFlatten(t)
    \/ ThreadHasEntity(t)
    \/ ThreadReadBindings(t)

ConcNext ==
    \/ RunWorkload
    \/ \E t \in Threads : ThreadNext(t)

\* The authority used by several threads at once
ConcSpec == Init /\ [][ConcNext]_vars

\* The same with a scheduler that lets every thread run that can go on; a
\* Lock is not fair, so a thread that waits for a lock is not promised it
\* while others keep taking it
ConcFairSpec == ConcSpec /\ \A t \in Threads : WF_vars(ThreadNext(t))


-----------------------------------------------------------------------------
(* SingletonController.  Threads call C() for classes C of the metaclass;   *)
(* each line of __call__ is a step.                                         *)

\* with cls._lock: can be entered (one lock for all the classes)
LockIsFreeAlways(s) == TRUE

LockIsFree(s) == s.lock = "free"

\* C(): the thread comes to __call__ and waits at with cls._lock
SingletonCall(t) ==
    /\ workload = 0
    /\ last = NoCall
    /\ single.at[t].pc = "out"
    /\ Len(single.at[t].got) + single.raised[t] < MaxCalls
    /\ \E cls \in Classes \cup FailingClasses :
          single' = [single EXCEPT !.at[t].cls = cls, !.at[t].pc = "with",
                        !.at[t].first = cls \notin DOMAIN single.instance]
    /\ UNCHANGED <<rbac, last, th, locks, workload, runs, factory>>

\* with cls._lock:
SingletonAcquire(t) ==
    /\ single.at[t].pc = "with"
    /\ LockIsFree(single)
    /\ single' = [single EXCEPT !.lock = t, !.at[t].pc = "if"]
    /\ UNCHANGED <<rbac, last, th, locks, workload, runs, factory>>

\* if cls not in cls._instance:
SingletonCheck(t) ==
    /\ single.at[t].pc = "if"
    /\ single' = [single EXCEPT !.at[t].pc =
                     IF single.at[t].cls \notin DOMAIN single.instance
                     THEN "construct" ELSE "return"]
    /\ UNCHANGED <<rbac, last, th, locks, workload, runs, factory>>

\* super().__call__ that gives the object made first, whatever the class
NewInstanceReused(s, cls) == [id |-> 1, class |-> cls]

\* super().__call__(*args, **kwargs): a new object of class cls
NewInstance(s, cls) == [id |-> s.made + 1, class |-> cls]

\* cls._instance[cls] = super().__call__(*args, **kwargs): the constructor
\* runs and makes a new object
SingletonConstruct(t) ==
    /\ single.at[t].pc = "construct"
    /\ single' = [single EXCEPT
                     !.made = @ + 1,
                     !.ran[single.at[t].cls] = @ + 1,
                     !.types = DictSet(@, NewInstance(single, single.at[t].cls).id,
                                       NewInstance(single, single.at[t].cls).class),
                     !.instance = DictSet(@, single.at[t].cls,
                                          NewInstance(single, single.at[t].cls).id),
                     !.at[t].pc = "return"]
    /\ UNCHANGED <<rbac, last, th, locks, workload, runs, factory>>

\* A failing constructor that leaves None stored for the class
SingletonConstructRaisesAndStores(t) ==
    /\ single.at[t].pc = "construct"
    /\ single.at[t].cls \in FailingClasses
    /\ single' = [single EXCEPT
                     !.ran[single.at[t].cls] = @ + 1,
                     !.instance = DictSet(@, single.at[t].cls, 0),
                     !.lock = "free",
                     !.raised[t] = @ + 1,
                     !.at[t] = [OutsideCall EXCEPT !.got = single.at[t].got]]
    /\ UNCHANGED <<rbac, last, th, locks, workload, runs, factory>>

\* cls._instance[cls] = super().__call__(*args, **kwargs) when the
\* constructor raises: nothing is assigned, the with-block is left, the
\* lock released, and the exception reaches the caller
SingletonConstructRaises(t) ==
    /\ single.at[t].pc = "construct"
    /\ single.at[t].cls \in FailingClasses
    /\ single' = [single EXCEPT
                     !.ran[single.at[t].cls] = @ + 1,
                     !.lock = "free",
                     !.raised[t] = @ + 1,
                     !.at[t] = [OutsideCall EXCEPT !.got = single.at[t].got]]
    /\ UNCHANGED <<rbac, last, th, locks, workload, runs, factory>>

\* return cls._instance[cls], and the lock is released
SingletonReturn(t) ==
    /\ single.at[t].pc = "return"
    /\ single' = [single EXCEPT
                     !.lock = IF @ = t THEN "free" ELSE @,
                     !.at[t] = [OutsideCall EXCEPT !.got =
                                  Append(single.at[t].got,
                                         [cls |-> single.at[t].cls,
                                          first |-> single.at[t].first,
                                          instance |-> single.instance[single.at[t].cls]])]]
    /\ UNCHANGED <<rbac, last, th, locks, workload, runs, factory>>

SingletonNext ==
    \E t \in Threads :
        \/ SingletonCall(t)
        \/ SingletonAcquire(t)
        \/ SingletonCheck(t)
        \/ SingletonConstruct(t)
        \/ SingletonConstructRaises(t)
        \/ SingletonReturn(t)

\* The classes of the metaclass constructed by several threads at once
SingletonSpec == Init /\ [][SingletonNext]_vars

-----------------------------------------------------------------------------
(* The same registration calls made in two orders *)

\* The outcome of a registration call on the authority s
Registration(s, c) ==
    CASE c.op = "add_user" -> AddUser(s, c.args[1].s)
      [] c.op = "add_group" -> AddGroup(s, c.args[1].s)
      [] c.op = "add_permission" -> AddPermission(s, c.args[1].name, c.args[1].level)
      [] c.op = "add_role" -> AddRole(s, c.args[1].s)
      [] c.op = "add_user_to_group" -> AddUserToGroup(s, c.args[1], c.args[2])
      [] c.op = "add_permission_to_role" -> AddPermissionToRole(s, c.args[1], c.args[2])
      [] c.op = "add_role_to_entity" -> AddRoleToEntity(s, c.args[1], c.args[2])

\* Sets of registration calls, each key registered once: a user in a group
\* that is bound to a role; two users, one bound to two roles; a user and a
\* group of the same bare name, which is bound to a role
RegistrationSets ==
    {{C("add_user", <<Str(<<"a">>)>>), C("add_group", <<Str(<<"b">>)>>),
      C("add_role", <<Str(<<"r">>)>>),
      C("add_permission", <<Permission("x", READ)>>),
      C("add_permission", <<Permission("x", NONE)>>),
      C("add_permission_to_role", <<Str(<<"x", "READ">>), Str(<<"r">>)>>),
      C("add_role_to_entity", <<Str(<<"r">>), Str(<<"b">>)>>),
      C("add_user_to_group", <<Str(<<"a">>), Str(<<"b">>)>>)},
     {C("add_user", <<Str(<<"a">>)>>), C("add_user", <<Str(<<"b">>)>>),
      C("add_role", <<Str(<<"r">>)>>), C("add_role", <<Str(<<"q">>)>>),
      C("add_permission", <<Permission("x", WRITE)>>),
      C("add_permission_to_role", <<Permission("x", WRITE), Str(<<"q">>)>>),
      C("add_role_to_entity", <<Str(<<"r">>), Str(<<"a">>)>>),
      C("add_role_to_entity", <<Str(<<"q">>), Str(<<"a">>)>>)},
     {C("add_user", <<Str(<<"a">>)>>), C("add_group", <<Str(<<"a">>)>>),
      C("add_role", <<Str(<<"r">>)>>),
      C("add_permission", <<Permission("x", READ)>>),
      C("add_permission_to_role", <<Str(<<"x", "READ">>), Str(<<"r">>)>>),
      C("add_role_to_entity", <<Str(<<"r">>), Str(<<"a">>)>>)}}

\* Two runs of the program are started, each with the same calls to make
OrderStart ==
    /\ runs = NoRuns
    /\ \E calls \in RegistrationSets :
          runs' = [calls |-> calls, left |-> calls, right |-> calls, other |-> RBACInit]
    /\ UNCHANGED <<rbac, last, th, locks, workload, single, factory>>

\* The first run makes one of its calls that is valid now
OrderFirst ==
    /\ \E c \in runs.left :
          /\ Registration(rbac, c).raised = "none"
          /\ rbac' = Registration(rbac, c).st
          /\ runs' = [runs EXCEPT !.left = @ \ {c}]
    /\ UNCHANGED <<last, th, locks, workload, single, factory>>

\* The second run makes one of its calls that is valid now
OrderSecond ==
    /\ \E c \in runs.right :
          /\ Registration(runs.other, c).raised = "none"
          /\ runs' = [runs EXCEPT !.right = @ \ {c},
                                  !.other = Registration(runs.other, c).st]
    /\ UNCHANGED <<rbac, last, th, locks, workload, single, factory>>

OrderNext == OrderStart \/ OrderFirst \/ OrderSecond

\* The same registration calls made in any two orders
OrderSpec == Init /\ [][OrderNext]_vars

-----------------------------------------------------------------------------
(* Registering again.  One client registers one user, one group, one role   *)
(* and two permissions, binds and attaches them by name, registers the      *)
(* group and the role a second time, and looks up what is there.            *)

MaxBindings == 2

ReRegisterCalls ==
    {C("add_user", <<Str(<<"a">>)>>), C("add_group", <<Str(<<"b">>)>>),
     C("add_user_to_group", <<Str(<<"a">>), Str(<<"b">>)>>),
     C("add_permission", <<Permission("x", READ)>>),
     C("add_permission", <<Permission("y", READ)>>),
     C("add_role", <<Str(<<"r">>)>>),
     C("add_permission_to_role", <<Str(<<"x", "READ">>), Str(<<"r">>)>>),
     C("add_permission_to_role", <<Str(<<"y", "READ">>), Str(<<"r">>)>>),
     C("add_role_to_entity", <<Str(<<"r">>), Str(<<"a">>)>>),
     C("add_role_to_entity", <<Str(<<"r">>), Str(<<"b">>)>>)}

\* The client makes one of the calls
DoRegistration ==
    \E c \in ReRegisterCalls :
        LET result == Registration(rbac, c) IN
        /\ last = NoCall
        /\ workload = 0
        /\ Len(result.st.roleObjs) <= MaxRoleObjs
        /\ Len(result.st.groupObjs) <= MaxGroupObjs
        /\ SumLen(result.st.rbind_to_ent, DOMAIN result.st.rbind_to_ent) <= MaxBindings
        /\ rbac' = result.st
        /\ last' = Call(c.op, c.args, result)
        /\ UNCHANGED <<th, locks, workload, single, runs, factory>>

\* A lookup or a decision
Lookup(s, c) ==
    CASE c.op = "get_entity" -> GetEntity(s, c.args[1])
      [] c.op = "get_permission" -> GetPermission(s, c.args[1])
      [] c.op = "get_role" -> GetRole(s, c.args[1])
      [] c.op = "get_entity_roles" -> GetEntityRoles(s, c.args[1])
      [] c.op = "get_entity_permissions" -> GetEntityPermissions(s, c.args[1])
      [] c.op = "can_entity_do" -> CanEntityDo(s, c.args[1], c.args[2])

\* What the client asks for: names that are registered or not, by a bare
\* name, a prefixed name or an object
LookupCalls(s) ==
    LET entities == {Str(<<"a">>), Str(<<"b">>), Str(<<"user", "a">>)}
                       \cup {GroupRef(s, id) : id \in DOMAIN s.groupObjs}
        permissions == {Str(<<"x", "READ">>), Permission("y", READ),
                        Permission("x", NONE)}
    IN  {C(op, <<e>>) : op \in {"get_entity", "get_entity_roles",
                                "get_entity_permissions"}, e \in entities}
        \cup {C("get_permission", <<p>>) : p \in permissions}
        \cup {C("get_role", <<r>>) : r \in RoleArgs(s)}
        \cup {C("can_entity_do", <<e, p>>) : e \in entities, p \in permissions}

\* The client makes a lookup; what the call stores, if anything, is kept
DoLookup ==
    \E c \in LookupCalls(rbac) :
        LET result == Lookup(rbac, c) IN
        /\ last = NoCall
        /\ workload = 0
        /\ rbac' = IF "st" \in DOMAIN result THEN result.st ELSE rbac
        /\ last' = Call(c.op, c.args, result)
        /\ UNCHANGED <<th, locks, workload, single, runs, factory>>

ReRegisterNext == DoRegistration \/ DoLookup \/ TakeOutcome

ReRegisterSpec == Init /\ [][ReRegisterNext]_vars

-----------------------------------------------------------------------------
(* gears.factory: the registry of builders of the Factory singleton and    *)
(* its default key.  A key is a Python str, a builder is a class, taken    *)
(* by its name.  One client makes one call at a time.                      *)

\* Factory.set_default
FactorySetDefault(f, key) ==
    IF key \notin DOMAIN f.builders
    THEN Fail("ValueError", f)
    ELSE Done([f EXCEPT !.default = key])

\* Factory.get_default
FactoryGetDefault(f) == Return(f.default)

\* Factory.register: the builder is stored under the key whether the key
\* was registered or not, then the KeyError is raised, and only a call that
\* did not raise goes on to set_default
FactoryRegister(f, key, builder) ==
    LET exc == key \in DOMAIN f.builders
        make_default == f.default = ""
        stored == [f EXCEPT !.builders = DictSet(@, key, builder)]
    IN IF exc THEN Fail("KeyError", stored)
       ELSE IF make_default THEN FactorySetDefault(stored, key)
       ELSE Done(stored)

\* The keys and the builders a client registers
KeyInputs == {"", "key1", "key2"}
BuilderInputs == {"GenericTestClass", "ArgListTestClass"}

\* The outcome of a call of the factory and the factory after it
FactoryCall(op, args, result) ==
    /\ last = NoCall
    /\ UNCHANGED <<rbac, th, locks, workload, single, runs>>
    /\ factory' = IF "st" \in DOMAIN result THEN result.st ELSE factory
    /\ last' = [op |-> op, args |-> args, raised |-> result.raised,
                ret |-> result.ret]

DoFactoryRegister ==
    \E key \in KeyInputs, builder \in BuilderInputs :
        FactoryCall("register", <<key, builder>>,
                    FactoryRegister(factory, key, builder))

DoFactorySetDefault ==
    \E key \in KeyInputs :
        FactoryCall("set_default", <<key>>, FactorySetDefault(factory, key))

DoFactoryGetDefault ==
    FactoryCall("get_default", <<>>, FactoryGetDefault(factory))

\* The calls of a client of the factory; TakeOutcome is the client going on
FactoryNext ==
    \/ DoFactoryRegister
    \/ DoFactorySetDefault
    \/ DoFactoryGetDefault
    \/ TakeOutcome

FactorySpec == Init /\ [][FactoryNext]_vars

-----------------------------------------------------------------------------
(* What the claims speak of, stated on the stored data and not through the *)
(* lookups of the code                                                     *)

\* A reference that denotes a registered user: its bare name, its prefixed
\* name or a User object of that name
DenotesUser(s, ref) ==
    \/ ref.kind = "str" /\ Len(ref.s) = 1 /\ ref.s \in DOMAIN s.users
    \/ ref.kind = "str" /\ Len(ref.s) = 2 /\ ref.s[1] = "user"
         /\ <<ref.s[2]>> \in DOMAIN s.users
    \/ ref.kind = "User" /\ <<ref.name[2]>> \in DOMAIN s.users

\* A reference that denotes a registered group
DenotesGroup(s, ref) ==
    \/ ref.kind = "str" /\ Len(ref.s) = 1 /\ ref.s \in DOMAIN s.groups
    \/ ref.kind = "str" /\ Len(ref.s) = 2 /\ ref.s[1] = "group"
         /\ <<ref.s[2]>> \in DOMAIN s.groups
    \/ ref.kind = "Group" /\ <<ref.name[2]>> \in DOMAIN s.groups

Denotes(s, ref) == DenotesUser(s, ref) \/ DenotesGroup(s, ref)

\* The prefixed name of the entity a reference denotes (a bare name that is
\* both a user and a group is taken as the user)
PrefixedName(s, ref) ==
    IF ref.kind # "str" THEN ref.name
    ELSE IF Len(ref.s) = 2 THEN ref.s
    ELSE IF ref.s \in DOMAIN s.users THEN <<"user">> \o ref.s
    ELSE <<"group">> \o ref.s

\* The registered groups that contain the entity called name
GroupsOf(s, name) ==
    {s.groupObjs[id].name : id \in {i \in Range(s.groups) :
                                       name \in DOMAIN s.groupObjs[i].users}}

\* The names under which bindings count for the entity called name
HoldersOf(s, name) == {name} \cup GroupsOf(s, name)

\* The bindings that count for the entity called name
BindingsOf(s, name) ==
    UNION {Range(s.rbind_to_ent[h]) : h \in HoldersOf(s, name) \cap DOMAIN s.rbind_to_ent}

\* The permissions attached to the roles bound to the entity or to its groups
HeldBy(s, name) ==
    UNION {Range(s.roleObjs[b.role].permissions) : b \in BindingsOf(s, name)}

PermissionKey(ref) ==
    IF ref.kind = "Permission" THEN PermissionStr(ref) ELSE ref.s

PermissionRegistered(s, ref) == PermissionKey(ref) \in DOMAIN s.permissions

Required(s, ref) == s.permissions[PermissionKey(ref)]

RoleRegistered(s, ref) ==
    (IF ref.kind = "Role" THEN ref.name ELSE ref.s) \in DOMAIN s.roles

Satisfies(held, required) ==
    held.name = required.name /\ held.level >= required.level

Granted(s, entity, permission) ==
    \E held \in HeldBy(s, PrefixedName(s, entity)) :
        Satisfies(held, Required(s, permission))

\* The entity has one binding in all, to a role that holds only permission p
OnlyRoleHoldsOnly(s, entity, p) ==
    LET name == PrefixedName(s, entity) IN
    /\ GroupsOf(s, name) = {}
    /\ name \in DOMAIN s.rbind_to_ent
    /\ Len(s.rbind_to_ent[name]) = 1
    /\ Range(s.roleObjs[s.rbind_to_ent[name][1].role].permissions) = {p}

ReturnedBool(b) == last.raised = "none" /\ last.ret = Bool(b)


\* The contents of the mappings, each object taken by what it holds and the
\* bindings of a key without their order
GroupContents(s, id) ==
    [name |-> s.groupObjs[id].name, users |-> s.groupObjs[id].users]

RoleContents(s, id) ==
    [name |-> s.roleObjs[id].name, permissions |-> s.roleObjs[id].permissions]

BindingContents(s, rbind) ==
    [entity |-> IF rbind.entity.kind = "Group"
                THEN GroupContents(s, rbind.entity.id) ELSE rbind.entity,
     role |-> RoleContents(s, rbind.role)]

\* How often each binding is in a list of bindings, whatever their order
Counted(rbinds) ==
    [x \in Range(rbinds) |-> Cardinality({i \in DOMAIN rbinds : rbinds[i] = x})]

Contents(s) ==
    [users |-> s.users,
     permissions |-> s.permissions,
     groups |-> [k \in DOMAIN s.groups |-> GroupContents(s, s.groups[k])],
     roles |-> [k \in DOMAIN s.roles |-> RoleContents(s, s.roles[k])],
     rbind_to_ent |-> [k \in DOMAIN s.rbind_to_ent |->
                         Counted([i \in DOMAIN s.rbind_to_ent[k] |->
                                    BindingContents(s, s.rbind_to_ent[k][i])])],
     rbind_to_role |-> [k \in DOMAIN s.rbind_to_role |->
                          Counted([i \in DOMAIN s.rbind_to_role[k] |->
                                     BindingContents(s, s.rbind_to_role[k][i])])]]

\* The authority after one call made alone
AfterCall(s, c) ==
    CASE c.op = "add_user" -> AddUser(s, c.args[1].s).st
      [] c.op = "add_group" -> AddGroup(s, c.args[1].s).st
      [] c.op = "add_permission" -> AddPermission(s, c.args[1].name, c.args[1].level).st
      [] c.op = "add_role" -> AddRole(s, c.args[1].s).st
      [] c.op = "add_user_to_group" -> AddUserToGroup(s, c.args[1], c.args[2]).st
      [] c.op = "add_permission_to_role" -> AddPermissionToRole(s, c.args[1], c.args[2]).st
      [] c.op = "add_role_to_entity" -> AddRoleToEntity(s, c.args[1], c.args[2]).st
      [] OTHER -> s

\* The authority after calls made one at a time
RECURSIVE AfterCalls(_, _)
AfterCalls(s, calls) ==
    IF calls = <<>> THEN s ELSE AfterCalls(AfterCall(s, Head(calls)), Tail(calls))

\* All the orders in which the calls of a set can be made
RECURSIVE Orders(_)
Orders(S) ==
    IF S = {} THEN {<<>>}
    ELSE UNION {{<<c>> \o rest : rest \in Orders(S \ {c})} : c \in S}

\* The calls of the workers of workload w, each told apart by thread and place
WorkerCalls(w) ==
    UNION {{<<t, i>> : i \in DOMAIN Workloads[w].workers[t]} : t \in Workers}

\* The contents that the calls of workload w produce when they are made one at
\* a time: the set-up by Main, then the workers' calls in any order whatever
SequentialContents(w) ==
    LET start == AfterCalls(RBACInit, Workloads[w].main) IN
    {Contents(AfterCalls(start,
         [k \in DOMAIN order |-> Workloads[w].workers[order[k][1]][order[k][2]]])) :
       order \in Orders(WorkerCalls(w))}

AllReturned == workload # 0 /\ \A t \in Threads : th[t].op = "idle" /\ th[t].prog = <<>>

\* Two threads are inside critical sections that touch the same mapping, and
\* one of them writes it
Conflict(t, u) ==
    /\ t # u
    /\ \E a \in Access(th[t]), b \in Access(th[u]) :
          a[1] = b[1] /\ "w" \in {a[2], b[2]}

-----------------------------------------------------------------------------
(* Claims *)

\* C1: for a registered entity E and a registered permission P whose level is
\* not NONE, can_entity_do(E, P) returns True if and only if some permission
\* attached to a role bound to E, or to a group that contains E, has P's name
\* and a level >= P's level; otherwise it returns False.
C1_DecisionIsGrant ==
    (/\ last.op = "can_entity_do"
     /\ Denotes(rbac, last.args[1])
     /\ PermissionRegistered(rbac, last.args[2])
     /\ Required(rbac, last.args[2]).level # NONE)
    => ReturnedBool(Granted(rbac, last.args[1], last.args[2]))

\* C2: with (x, WRITE) and (x, READ) registered, an entity whose only role
\* holds only (x, WRITE) is allowed (x, READ), and an entity whose only role
\* holds only (x, READ) gets False for (x, WRITE).
C2_HigherImpliesLower ==
    \A name \in {"x", "y"} :
        (/\ last.op = "can_entity_do"
         /\ Denotes(rbac, last.args[1])
         /\ PermissionStr(Permission(name, WRITE)) \in DOMAIN rbac.permissions
         /\ PermissionStr(Permission(name, READ)) \in DOMAIN rbac.permissions)
        => /\ (/\ OnlyRoleHoldsOnly(rbac, last.args[1], Permission(name, WRITE))
               /\ PermissionKey(last.args[2]) = PermissionStr(Permission(name, READ)))
              => ReturnedBool(TRUE)
           /\ (/\ OnlyRoleHoldsOnly(rbac, last.args[1], Permission(name, READ))
               /\ PermissionKey(last.args[2]) = PermissionStr(Permission(name, WRITE)))
              => ReturnedBool(FALSE)

\* C3: if user U was added to group G, G is bound to role R and R holds
\* permission P, then can_entity_do(U, P) returns True although U has no
\* binding of its own.
C3_GroupInheritance ==
    (/\ last.op = "can_entity_do"
     /\ DenotesUser(rbac, last.args[1])
     /\ PermissionRegistered(rbac, last.args[2])
     /\ LET name == PrefixedName(rbac, last.args[1]) IN
        /\ name[1] = "user"
        /\ name \notin DOMAIN rbac.rbind_to_ent
        /\ \E g \in GroupsOf(rbac, name) :
              /\ g \in DOMAIN rbac.rbind_to_ent
              /\ \E b \in Range(rbac.rbind_to_ent[g]) :
                    Required(rbac, last.args[2])
                        \in Range(rbac.roleObjs[b.role].permissions))
    => ReturnedBool(TRUE)

\* C4: for a registered permission P of level NONE and any entity reference,
\* registered or not, can_entity_do returns True and does not raise; the
\* entity is not resolved and no binding is looked up.
C4_NoneAlwaysAllowed ==
    (/\ last.op = "can_entity_do"
     /\ PermissionRegistered(rbac, last.args[2])
     /\ Required(rbac, last.args[2]).level = NONE)
    => /\ ReturnedBool(TRUE)
       /\ last.lookups = <<"get_permission">>

C4_Witness ==
    /\ last.op = "can_entity_do"
    /\ last.args[2] = Str(<<"x", "NONE">>)
    /\ ~Denotes(rbac, last.args[1])
    /\ ReturnedBool(TRUE)

\* C5: a lookup of a reference that names nothing registered raises the
\* matching typed error (RBACEntityNotFound, RBACPermissionNotFound,
\* RBACRoleNotFound) in get_entity, get_permission, get_role and in
\* can_entity_do, add_permission_to_role and add_role_to_entity, which resolve
\* their arguments in turn; it raises nothing else and returns nothing.
C5_TypedNotFound ==
    /\ (last.op = "get_entity" /\ ~Denotes(rbac, last.args[1]))
       => last.raised = "RBACEntityNotFound"
    /\ (last.op = "get_permission" /\ ~PermissionRegistered(rbac, last.args[1]))
       => last.raised = "RBACPermissionNotFound"
    /\ (last.op = "get_role" /\ ~RoleRegistered(rbac, last.args[1]))
       => last.raised = "RBACRoleNotFound"
    /\ (last.op = "can_entity_do" /\ ~PermissionRegistered(rbac, last.args[2]))
       => last.raised = "RBACPermissionNotFound"
    /\ (/\ last.op = "can_entity_do"
        /\ PermissionRegistered(rbac, last.args[2])
        /\ Required(rbac, last.args[2]).level # NONE
        /\ ~Denotes(rbac, last.args[1]))
       => last.raised = "RBACEntityNotFound"
    /\ (last.op = "add_permission_to_role"
        /\ ~PermissionRegistered(rbac, last.args[1]))
       => last.raised = "RBACPermissionNotFound"
    /\ (/\ last.op = "add_permission_to_role"
        /\ PermissionRegistered(rbac, last.args[1])
        /\ ~RoleRegistered(rbac, last.args[2]))
       => last.raised = "RBACRoleNotFound"
    /\ (last.op = "add_role_to_entity" /\ ~Denotes(rbac, last.args[2]))
       => last.raised = "RBACEntityNotFound"
    /\ (/\ last.op = "add_role_to_entity"
        /\ GetEntity(rbac, last.args[2]).raised = "none"
        /\ ~RoleRegistered(rbac, last.args[1]))
       => last.raised = "RBACRoleNotFound"

C5_Witness ==
    /\ last.op = "add_role_to_entity"
    /\ Denotes(rbac, last.args[2])
    /\ ~RoleRegistered(rbac, last.args[1])
    /\ last.raised = "RBACRoleNotFound"

\* C6: after add_user(n), get_entity resolves the bare name n, the prefixed
\* name 'user:n' and a User(n) object to the registered user without raising;
\* after add_group(n) it resolves n, 'group:n' and a Group(n) object to the
\* registered group.
C6_GetEntityResolvesAllForms ==
    /\ (last.op = "get_entity" /\ DenotesUser(rbac, last.args[1])
            /\ ~DenotesGroup(rbac, last.args[1]))
       => /\ last.raised = "none"
          /\ last.ret = rbac.users[<<PrefixedName(rbac, last.args[1])[2]>>]
    /\ (last.op = "get_entity" /\ DenotesGroup(rbac, last.args[1])
            /\ ~DenotesUser(rbac, last.args[1]))
       => /\ last.raised = "none"
          /\ last.ret.kind = "Group"
          /\ last.ret.name = PrefixedName(rbac, last.args[1])

\* C7: for a registered entity, can_entity_do raises RBACPermissionNotFound
\* when the required permission key was never registered, and returns False
\* (it does not raise) when the key is registered but no role reachable from
\* the entity holds a satisfying permission.
C7_UnregisteredVersusUngranted ==
    (last.op = "can_entity_do" /\ Denotes(rbac, last.args[1]))
    => /\ ~PermissionRegistered(rbac, last.args[2])
          => last.raised = "RBACPermissionNotFound"
       /\ (/\ PermissionRegistered(rbac, last.args[2])
           /\ Required(rbac, last.args[2]).level # NONE
           /\ ~Granted(rbac, last.args[1], last.args[2]))
          => ReturnedBool(FALSE)

\* C8: when registration calls were made by several threads at once and all
\* have returned, the contents of the mappings are contents that the same
\* calls produce when made one at a time in some order.
C8_FinalStateIsSequential ==
    AllReturned => Contents(rbac) \in SequentialContents(workload)

\* C9: the list that get_entity_permissions returns while registrations go on
\* is the list it computes from one single state that the authority was in
\* between the start of the call and its return.
C9_ConsistentSnapshot ==
    \A t \in Threads : \A k \in DOMAIN th[t].out :
        th[t].out[k].op = "get_entity_permissions" =>
            [raised |-> th[t].out[k].raised, ret |-> th[t].out[k].ret]
                \in th[t].out[k].could

\* C10: no two threads are at the same time inside critical sections that
\* touch the same mapping (one of the five mappings, a group's users, a role's
\* permissions) when one of the two writes it.
C10_MutualExclusion ==
    \A t \in Threads, u \in Threads : ~Conflict(t, u)

\* C11: for every class of the metaclass (with a constructor that returns,
\* as RBAC's does) and every interleaving of first calls from several
\* threads, the constructor of the class has run at most once,
\* exactly once as soon as a call has returned, and every call returned the
\* one instance that is stored for the class.
C11_ConstructedOnce ==
    /\ \A c \in Classes : single.ran[c] <= 1
    /\ \A t \in Threads : \A k \in DOMAIN single.at[t].got :
          LET g == single.at[t].got[k] IN
          /\ g.cls \in Classes => single.ran[g.cls] = 1
          /\ g.cls \in DOMAIN single.instance
          /\ g.instance = single.instance[g.cls]

\* Two threads made first calls of RBAC at once, and both have returned
C11_Witness ==
    \E t \in Threads, u \in Threads :
        /\ t # u
        /\ \E k \in DOMAIN single.at[t].got :
              single.at[t].got[k].cls = "RBAC" /\ single.at[t].got[k].first
        /\ \E k \in DOMAIN single.at[u].got :
              single.at[u].got[k].cls = "RBAC" /\ single.at[u].got[k].first

\* The Role object that a role reference denotes
RoleIdOf(s, ref) == IF ref.kind = "Role" THEN ref.id ELSE s.roles[ref.s]

\* The roles bound to the entity called name, or to a group that contains it
RolesBoundTo(s, name) == {b.role : b \in BindingsOf(s, name)}

\* The call that has just returned is an add_permission_to_role that attached
\* a permission satisfying the required one to a role that was bound to the
\* entity (or to a group of it) before
AttachedAfterBound(entity, permission) ==
    /\ last.op = "add_permission_to_role"
    /\ last.raised = "none"
    /\ RoleIdOf(rbac, last.args[2]) \in RolesBoundTo(rbac, PrefixedName(rbac, entity))
    /\ Satisfies(Required(rbac, last.args[1]), Required(rbac, permission))

\* The call that has just returned is an add_user_to_group that added the
\* user to a group that was bound before to a role holding a permission
\* satisfying the required one
JoinedAfterBound(entity, permission) ==
    /\ last.op = "add_user_to_group"
    /\ last.raised = "none"
    /\ DenotesUser(rbac, entity)
    /\ PrefixedName(rbac, entity) = PrefixedName(rbac, last.args[1])
    /\ LET gname == IF last.args[2].kind = "Group" THEN last.args[2].name
                    ELSE <<"group">> \o last.args[2].s
       IN  /\ gname \in GroupsOf(rbac, PrefixedName(rbac, entity))
           /\ gname \in DOMAIN rbac.rbind_to_ent
           /\ \E b \in Range(rbac.rbind_to_ent[gname]) :
                 \E held \in Range(rbac.roleObjs[b.role].permissions) :
                     Satisfies(held, Required(rbac, permission))

\* C12: a registration that has returned is reflected in the next decision:
\* once add_permission_to_role has attached a satisfying permission to a role
\* bound to E, or add_user_to_group has added U to a group bound to such a
\* role, the can_entity_do call that starts next returns True.
C12_NeverStale ==
    \A entity \in EntityArgs(rbac), permission \in PermissionArgs :
        (/\ Denotes(rbac, entity)
         /\ PermissionRegistered(rbac, permission)
         /\ Required(rbac, permission).level # NONE
         /\ \/ AttachedAfterBound(entity, permission)
            \/ JoinedAfterBound(entity, permission))
        => LET next == CanEntityDo(rbac, entity, permission) IN
           next.raised = "none" /\ next.ret = Bool(TRUE)

\* The pair that the arguments of add_role_to_entity resolve to has a binding
AlreadyBound(s, role, entity) ==
    LET e == GetEntity(s, entity)
        r == GetRole(s, role)
    IN  /\ e.raised = "none"
        /\ r.raised = "none"
        /\ e.ret.name \in DOMAIN s.rbind_to_ent
        /\ [entity |-> e.ret, role |-> r.ret.id] \in Range(s.rbind_to_ent[e.ret.name])

\* The permissions that get_entity_permissions reports, as a set
ReportedPermissions(s, entity) ==
    LET held == GetEntityPermissions(s, entity) IN
    IF held.raised # "none" THEN {held.raised} ELSE Range(held.ret.items)

\* A step that calls add_role_to_entity with a pair bound already
C13_BoundAgain ==
    /\ last' # last
    /\ last'.op = "add_role_to_entity"
    /\ AlreadyBound(rbac, last'.args[1], last'.args[2])

\* C13: add_role_to_entity called again with a pair that is bound already does
\* not raise, and afterwards can_entity_do gives for every entity and every
\* permission what it gave before the call (and the permissions reported
\* for every entity are the same set).
C13_DuplicateBinding ==
    [][C13_BoundAgain =>
         /\ last'.raised = "none"
         /\ \A entity \in EntityArgs(rbac) :
               /\ \A permission \in PermissionArgs :
                     CanEntityDo(rbac', entity, permission)
                         = CanEntityDo(rbac, entity, permission)
               /\ ReportedPermissions(rbac', entity) = ReportedPermissions(rbac, entity)
      ]_vars

\* A pair was bound twice: the entity's list holds the same binding two times
C13_Witness ==
    /\ last.op = "add_role_to_entity"
    /\ last.raised = "none"
    /\ \E name \in DOMAIN rbac.rbind_to_ent :
          \E i \in DOMAIN rbac.rbind_to_ent[name], j \in DOMAIN rbac.rbind_to_ent[name] :
              /\ i < j
              /\ rbac.rbind_to_ent[name][i] = rbac.rbind_to_ent[name][j]
              /\ rbac.roleObjs[rbac.rbind_to_ent[name][i].role].permissions # EmptyDict

\* C14: in every reachable state no Role object holds a permission of level
\* NONE, so that no entity is ever granted one.
C14_NoneNeverGranted ==
    \A id \in DOMAIN rbac.roleObjs :
        \A held \in Range(rbac.roleObjs[id].permissions) : held.level # NONE

\* The bare names under which both a user and a group are registered
SharedNames(s) == DOMAIN s.users \cap DOMAIN s.groups

\* C15: when a user and a group are registered under the same bare name n,
\* get_entity resolves user:n to the user and group:n to the group, with a
\* registered role add_role_to_entity binds either of them, and the bindings
\* kept for the one are never kept for the other.
C15_NamespacesDisjoint ==
    \A n \in SharedNames(rbac) :
        LET user == Str(<<"user">> \o n)
            group == Str(<<"group">> \o n)
        IN  /\ GetEntity(rbac, user).raised = "none"
            /\ GetEntity(rbac, user).ret.kind = "User"
            /\ GetEntity(rbac, group).raised = "none"
            /\ GetEntity(rbac, group).ret.kind = "Group"
            /\ \A role \in RoleArgs(rbac) :
                  RoleRegistered(rbac, role) =>
                     /\ AddRoleToEntity(rbac, role, user).raised = "none"
                     /\ AddRoleToEntity(rbac, role, group).raised = "none"
            /\ \A name \in DOMAIN rbac.rbind_to_ent :
                  \A b \in Range(rbac.rbind_to_ent[name]) : b.entity.name = name

\* The members of every registered group, by the group's key
Members(s) == [k \in DOMAIN s.groups |-> DOMAIN s.groupObjs[s.groups[k]].users]

\* The key of the group that a reference denotes
GroupKey(ref) ==
    IF ref.kind = "Group" THEN <<ref.name[2]>>
    ELSE IF Len(ref.s) = 2 THEN <<ref.s[2]>> ELSE ref.s

\* C16: add_user_to_group(u, g) raises RBACEntityNotFound and changes no
\* membership when u does not denote a registered user or g does not denote a
\* registered group (also when u names only a group or g only a user);
\* otherwise it returns, the user is a member of the group and no other
\* membership has changed.
C16_AddUserToGroup ==
    [][(last' # last /\ last'.op = "add_user_to_group") =>
         LET user == last'.args[1]
             group == last'.args[2]
         IN  IF DenotesUser(rbac, user) /\ DenotesGroup(rbac, group)
             THEN /\ last'.raised = "none"
                  /\ Members(rbac') =
                        [Members(rbac) EXCEPT ![GroupKey(group)] =
                            @ \cup {PrefixedName(rbac, user)}]
             ELSE /\ last'.raised = "RBACEntityNotFound"
                  /\ Members(rbac') = Members(rbac)
      ]_vars

\* user:<alnum_or_underscore>+ and group:<alnum_or_underscore>+
WellNamed(name, prefix) == Len(name) = 2 /\ name[1] = prefix /\ name[2] \in Words

\* C17: add_user and add_group with a name that does not give
\* user:<alnum_or_underscore>+ or group:<alnum_or_underscore>+ once the prefix
\* is added raise and register nothing, so that in every reachable state
\* every stored user and every stored group has a name of that form.
C17_StoredNamesMatch ==
    /\ \A k \in DOMAIN rbac.users : WellNamed(rbac.users[k].name, "user")
    /\ \A k \in DOMAIN rbac.groups :
          WellNamed(rbac.groupObjs[rbac.groups[k]].name, "group")
    /\ (last.op = "add_user" /\ ~WellNamed(<<"user">> \o last.args[1].s, "user"))
          => last.raised # "none"
    /\ (last.op = "add_group" /\ ~WellNamed(<<"group">> \o last.args[1].s, "group"))
          => last.raised # "none"

\* after is before with exactly one item appended to the list of key
OneAppended(before, after, key) ==
    LET old == IF key \in DOMAIN before THEN before[key] ELSE <<>> IN
    /\ DOMAIN after = DOMAIN before \cup {key}
    /\ \A k \in DOMAIN before \ {key} : after[k] = before[k]
    /\ Len(after[key]) = Len(old) + 1
    /\ SubSeq(after[key], 1, Len(old)) = old

\* The name of the role that a reference denotes
RoleNameOf(ref) == IF ref.kind = "Role" THEN ref.name ELSE ref.s

\* C18: add_role_to_entity with a role that is not registered raises
\* RBACRoleNotFound, with an entity that is not registered RBACEntityNotFound,
\* and leaves both binding lists as they were; with both registered it
\* returns and has appended exactly one RoleBinding to the entity's list and
\* one to the role's list.
C18_AddRoleToEntity ==
    [][(last' # last /\ last'.op = "add_role_to_entity") =>
         LET role == last'.args[1]
             entity == last'.args[2]
             unchanged == /\ rbac'.rbind_to_ent = rbac.rbind_to_ent
                          /\ rbac'.rbind_to_role = rbac.rbind_to_role
         IN  CASE Denotes(rbac, entity) /\ RoleRegistered(rbac, role) ->
                    /\ last'.raised = "none"
                    /\ OneAppended(rbac.rbind_to_ent, rbac'.rbind_to_ent,
                                   PrefixedName(rbac, entity))
                    /\ OneAppended(rbac.rbind_to_role, rbac'.rbind_to_role,
                                   RoleNameOf(role))
               [] Denotes(rbac, entity) /\ ~RoleRegistered(rbac, role) ->
                    last'.raised = "RBACRoleNotFound" /\ unchanged
               [] ~Denotes(rbac, entity) /\ RoleRegistered(rbac, role) ->
                    last'.raised = "RBACEntityNotFound" /\ unchanged
               [] OTHER ->
                    last'.raised \in {"RBACRoleNotFound", "RBACEntityNotFound"}
                       /\ unchanged
      ]_vars

\* The last call went through one of the guards
GuardCall ==
    last.op \in {"rbac_can_entity_do", "rbac_call_predicate", "rbac_execute", "rbac"}

\* The callable that the last guard call guarded
GuardedFun ==
    IF last.op \in {"rbac_can_entity_do", "rbac"} THEN last.args[1] ELSE last.args[2]

\* The last guard call named an acting entity
HasActingEntity ==
    last.op = "rbac" => ("entity" \in DOMAIN last.args[3] \/ Len(last.args[2]) > 0)

\* The acting entity of the last guard call
ActingEntity ==
    CASE last.op = "rbac_can_entity_do" -> last.args[2]
      [] last.op \in {"rbac_call_predicate", "rbac_execute"} -> last.args[1]
      [] OTHER -> IF "entity" \in DOMAIN last.args[3]
                  THEN last.args[3]["entity"]
                  ELSE last.args[2][1]

\* The decision for the acting entity and the callable's required permission
GuardDecision ==
    \/ GuardedFun.permission.level = NONE
    \/ Granted(rbac, ActingEntity, GuardedFun.permission)

\* C19: rbac_execute and the rbac wrapper invoke the guarded callable only
\* when the decision for the acting entity and the callable's required
\* permission is True; when the decision is False they raise AccessDenied
\* and the callable is not invoked.
C19_DeniedNeverInvoked ==
    (/\ last.op \in {"rbac_execute", "rbac"}
     /\ HasActingEntity
     /\ GuardedFun.permission # NoneValue
     /\ Denotes(rbac, ActingEntity)
     /\ PermissionRegistered(rbac, GuardedFun.permission))
    => /\ last.invoked => GuardDecision
       /\ ~GuardDecision => (last.raised = "AccessDenied" /\ ~last.invoked)

\* C20: with a registered acting entity, guarding a callable that carries no
\* permission while none is supplied raises RBACNotFound, and the callable
\* is not invoked.
C20_PermissionUnset ==
    (/\ GuardCall
     /\ HasActingEntity
     /\ Denotes(rbac, ActingEntity)
     /\ GuardedFun.permission = NoneValue)
    => (last.raised = "RBACNotFound" /\ ~last.invoked)

\* C21: a guarded callable whose required permission has level NONE is
\* public: rbac_execute and the rbac wrapper invoke it for every acting
\* entity value, None and entities never registered included, and raise
\* neither RBACEntityNotFound nor AccessDenied.
C21_NoneIsPublic ==
    (/\ last.op \in {"rbac_execute", "rbac"}
     /\ HasActingEntity
     /\ GuardedFun.permission # NoneValue
     /\ GuardedFun.permission.level = NONE)
    => (last.invoked /\ last.raised = "none")

\* The positional arguments of the last call of a wrapped callable that are
\* left once the acting entity is taken out
RemainingArgs ==
    IF "entity" \in DOMAIN last.args[3] THEN last.args[2] ELSE Tail(last.args[2])

\* The names of its keyword arguments other than the acting entity
RemainingKeys == DOMAIN last.args[3] \ {"entity"}

\* The object a wrapped method is bound to, as the positional arguments it
\* takes up
BoundObject == IF last.args[4] = NoneValue THEN <<>> ELSE <<last.args[4]>>

\* C22: on a successful call through the rbac wrapper the acting entity is
\* handed to the callable as keyword argument 'entity' exactly when the
\* callable's pass-entity flag is set and true, and is removed from the
\* arguments otherwise; the remaining positional and keyword arguments reach
\* the callable unchanged and in order.
C22_EntityPassing ==
    (last.op = "rbac" /\ last.invoked)
    => /\ "entity" \in DOMAIN last.handed.kwargs
             <=> GuardedFun.pass_entity = Bool(TRUE)
       /\ "entity" \in DOMAIN last.handed.kwargs
             => last.handed.kwargs["entity"] = ActingEntity
       /\ DOMAIN last.handed.kwargs \ {"entity"} = RemainingKeys
       /\ \A k \in RemainingKeys : last.handed.kwargs[k] = last.args[3][k]
       /\ last.handed.args = BoundObject \o RemainingArgs

\* A method bound to an object was called with the entity first and two
\* more positional arguments, and got the entity by keyword
C22_Witness ==
    /\ last.op = "rbac" /\ last.invoked
    /\ last.args[4] # NoneValue
    /\ Len(last.args[2]) = 3
    /\ GuardedFun.pass_entity = Bool(TRUE)
    /\ last.handed.kwargs["entity"] = last.args[2][1]

\* The items of a section of a configuration
Listed(conf, key) == Range(ConfGet(conf, key))

\* The entity of a role binding is written in prefixed form and declared
DeclaredEntity(conf, entity) ==
    /\ Len(entity) = 2
    /\ \/ entity[1] = "user" /\ <<entity[2]>> \in Listed(conf, "users")
       \/ entity[1] = "group" /\ <<entity[2]>> \in Listed(conf, "groups")

\* The entries of role_bindings, user_to_group and permissions_to_roles refer
\* only to names that the configuration declares
SelfContained(conf) ==
    /\ \A rbind \in Listed(conf, "role_bindings") :
          rbind.role \in Listed(conf, "roles") /\ DeclaredEntity(conf, rbind.entity)
    /\ \A ug \in Listed(conf, "user_to_group") :
          ug.user \in Listed(conf, "users") /\ ug.group \in Listed(conf, "groups")
    /\ \A pr \in Listed(conf, "permissions_to_roles") :
          /\ pr.role \in Listed(conf, "roles")
          /\ \E perm \in Listed(conf, "permissions") :
                pr.permission = <<perm.name, perm.level>>

\* The authority holds the bindings, memberships and attachments that the
\* configuration lists
Yields(s, conf) ==
    /\ \A rbind \in Listed(conf, "role_bindings") :
          /\ rbind.entity \in DOMAIN s.rbind_to_ent
          /\ \E b \in Range(s.rbind_to_ent[rbind.entity]) :
                s.roleObjs[b.role].name = rbind.role
    /\ \A ug \in Listed(conf, "user_to_group") :
          /\ ug.group \in DOMAIN s.groups
          /\ <<"user">> \o ug.user \in DOMAIN s.groupObjs[s.groups[ug.group]].users
    /\ \A pr \in Listed(conf, "permissions_to_roles") :
          /\ pr.role \in DOMAIN s.roles
          /\ pr.permission \in DOMAIN s.roleObjs[s.roles[pr.role]].permissions

\* C23: rbac_config applies the sections in the order roles, permissions,
\* users, groups, role_bindings, user_to_group, permissions_to_roles whatever
\* the order of the keys, so a configuration whose role_bindings (entities
\* in prefixed form), user_to_group and permissions_to_roles refer only to
\* names it declares loads without a not-found error and yields the
\* bindings, memberships and attachments it lists.
C23_ConfigLoads ==
    (last.op = "rbac_config" /\ SelfContained(last.args[1]))
    => /\ last.raised = "none"
       /\ Yields(rbac, last.args[1])

\* The permissions attached to the role registered under each key
Attached(s) == [k \in DOMAIN s.roles |-> DOMAIN s.roleObjs[s.roles[k]].permissions]

\* Every list of before is the beginning of the list of the same key in after
Extended(before, after) ==
    \A k \in DOMAIN before :
        /\ k \in DOMAIN after
        /\ Len(after[k]) >= Len(before[k])
        /\ SubSeq(after[k], 1, Len(before[k])) = before[k]

\* Every key of s is a key of t
KeysKept(s, t) ==
    /\ DOMAIN s.users \subseteq DOMAIN t.users
    /\ DOMAIN s.groups \subseteq DOMAIN t.groups
    /\ DOMAIN s.permissions \subseteq DOMAIN t.permissions
    /\ DOMAIN s.roles \subseteq DOMAIN t.roles

\* Every can_entity_do that returns True in s returns True in t
GrantsKept(s, t) ==
    \A entity \in EntityArgs(s), permission \in PermissionArgs :
        CanEntityDo(s, entity, permission).ret = Bool(TRUE)
           => CanEntityDo(t, entity, permission).ret = Bool(TRUE)

\* C24 as stated: whatever the operation, every user, group, membership,
\* permission, role, attachment and binding of a state is there in the next
\* state, and a can_entity_do that returned True still returns True.
C24_NothingDeleted ==
    [][rbac' # rbac =>
       /\ KeysKept(rbac, rbac')
       /\ \A g \in DOMAIN rbac.groups : Members(rbac)[g] \subseteq Members(rbac')[g]
       /\ \A r \in DOMAIN rbac.roles : Attached(rbac)[r] \subseteq Attached(rbac')[r]
       /\ Extended(rbac.rbind_to_ent, rbac'.rbind_to_ent)
       /\ Extended(rbac.rbind_to_role, rbac'.rbind_to_role)
       /\ GrantsKept(rbac, rbac')
      ]_vars

\* C24: no operation removes a key, a binding or a grant, and every Group
\* and Role object keeps its members and its attachments; the members of the
\* group and the attachments of the role registered under a key are all
\* there in the next state unless that key was registered again (add_group,
\* add_role, rbac_config), which puts a new Group or Role object in its
\* place.
C24_NothingDeletedButByRegisteringAgain ==
    [][rbac' # rbac =>
       /\ KeysKept(rbac, rbac')
       /\ Extended(rbac.rbind_to_ent, rbac'.rbind_to_ent)
       /\ Extended(rbac.rbind_to_role, rbac'.rbind_to_role)
       /\ GrantsKept(rbac, rbac')
       /\ \A id \in DOMAIN rbac.groupObjs :
             /\ id \in DOMAIN rbac'.groupObjs
             /\ DOMAIN rbac.groupObjs[id].users \subseteq DOMAIN rbac'.groupObjs[id].users
       /\ \A id \in DOMAIN rbac.roleObjs :
             /\ id \in DOMAIN rbac'.roleObjs
             /\ DOMAIN rbac.roleObjs[id].permissions
                   \subseteq DOMAIN rbac'.roleObjs[id].permissions
       /\ \A g \in DOMAIN rbac.groups :
             \/ Members(rbac)[g] \subseteq Members(rbac')[g]
             \/ /\ last'.op \in {"add_group", "rbac_config"}
                /\ rbac'.groups[g] # rbac.groups[g]
       /\ \A r \in DOMAIN rbac.roles :
             \/ Attached(rbac)[r] \subseteq Attached(rbac')[r]
             \/ /\ last'.op \in {"add_role", "rbac_config"}
                /\ rbac'.roles[r] # rbac.roles[r]
      ]_vars

\* A group that had a member was registered again: the Group object put in
\* its place has no member, the one it replaced still has its own
C24_Witness ==
    /\ last.op = "add_group" /\ last.raised = "none"
    /\ \E g \in DOMAIN rbac.groups, id \in DOMAIN rbac.groupObjs :
          /\ id # rbac.groups[g]
          /\ rbac.groupObjs[id].name = rbac.groupObjs[rbac.groups[g]].name
          /\ rbac.groupObjs[id].users # EmptyDict
          /\ Members(rbac)[g] = {}
          /\ last.args[1].s = g

\* C25: add_user, add_group, add_role and add_permission called with a key
\* that is registered already return normally; the mapping then has the
\* same keys as before and holds under that key the object that this call
\* created.
C25_LastWriteWins ==
    [][last' # last =>
         LET key == last'.args[1].s
             perm == last'.args[1]
         IN  /\ (last'.op = "add_user" /\ key \in DOMAIN rbac.users)
                   => /\ last'.raised = "none"
                      /\ DOMAIN rbac'.users = DOMAIN rbac.users
                      /\ rbac'.users[key] = [kind |-> "User", name |-> <<"user">> \o key]
             /\ (last'.op = "add_group" /\ key \in DOMAIN rbac.groups)
                   => /\ last'.raised = "none"
                      /\ DOMAIN rbac'.groups = DOMAIN rbac.groups
                      /\ rbac'.groups[key] \notin DOMAIN rbac.groupObjs
                      /\ rbac'.groupObjs[rbac'.groups[key]]
                            = [name |-> <<"group">> \o key, users |-> EmptyDict]
             /\ (last'.op = "add_role" /\ key \in DOMAIN rbac.roles)
                   => /\ last'.raised = "none"
                      /\ DOMAIN rbac'.roles = DOMAIN rbac.roles
                      /\ rbac'.roles[key] \notin DOMAIN rbac.roleObjs
                      /\ rbac'.roleObjs[rbac'.roles[key]]
                            = [name |-> key, permissions |-> EmptyDict]
             /\ (last'.op = "add_permission"
                    /\ PermissionStr(perm) \in DOMAIN rbac.permissions)
                   => /\ last'.raised = "none"
                      /\ DOMAIN rbac'.permissions = DOMAIN rbac.permissions
                      /\ rbac'.permissions[PermissionStr(perm)] = perm
      ]_vars

\* A role that had a permission attached was registered again: its key now
\* leads to the Role object of the second call
C25_Witness ==
    /\ last.op = "add_role" /\ last.raised = "none"
    /\ Len(rbac.roleObjs) = 2
    /\ rbac.roleObjs[1].name = last.args[1].s
    /\ rbac.roleObjs[1].permissions # EmptyDict
    /\ rbac.roles[last.args[1].s] = 2
    /\ rbac.roleObjs[2].permissions = EmptyDict

\* C26: once add_permission_to_role has attached a permission to a role,
\* attaching the same permission to the same role again returns and leaves
\* the role's permissions, every other mapping and so every decision as
\* they were after the first attachment.
C26_AttachIdempotent ==
    (last.op = "add_permission_to_role" /\ last.raised = "none")
    => AddPermissionToRole(rbac, last.args[1], last.args[2]) = Done(rbac)

\* A permission was attached to a role that held another one already
C26_Witness ==
    /\ last.op = "add_permission_to_role" /\ last.raised = "none"
    /\ \E id \in DOMAIN rbac.roleObjs :
          /\ Cardinality(DOMAIN rbac.roleObjs[id].permissions) = 2
          /\ PermissionKey(last.args[1]) \in DOMAIN rbac.roleObjs[id].permissions

\* What can_entity_do gives for every entity and every permission asked for
Outcomes(s) ==
    [entity \in {Str(<<"a">>), Str(<<"b">>), Str(<<"user", "a">>),
                 Str(<<"group", "b">>), Str(<<"group", "a">>), UserNew(<<"a">>).ret},
     permission \in PermissionArgs |->
        LET d == CanEntityDo(s, entity, permission) IN
        [raised |-> d.raised, ret |-> d.ret]]

\* C27: two sequences made of the same registration calls, each key
\* registered once and each call valid where it is made, lead to states in
\* which can_entity_do gives the same outcome for every entity and every
\* permission.
C27_OrderInsignificant ==
    (runs.calls # {} /\ runs.left = runs.right)
    => Outcomes(rbac) = Outcomes(runs.other)

\* Both runs have made all their calls, in orders that left the two
\* authorities with different contents
C27_Witness ==
    /\ runs.calls # {}
    /\ runs.left = {} /\ runs.right = {}
    /\ rbac # runs.other

\* The Role objects bound to the entity called name
RolesOf(s, name) ==
    IF name \in DOMAIN s.rbind_to_ent
    THEN {s.rbind_to_ent[name][i].role : i \in DOMAIN s.rbind_to_ent[name]}
    ELSE {}

\* The reference denotes a registered group and no registered user
DenotesOnlyGroup(s, ref) ==
    DenotesGroup(s, ref) /\ ~(ref.kind = "str" /\ ref.s \in DOMAIN s.users)

\* C28: get_entity_roles called for a group returns all the roles of the
\* users that are members of the group.
C28_GroupRolesOfMembers ==
    (last.op = "get_entity_roles" /\ DenotesOnlyGroup(rbac, last.args[1]))
    => /\ last.raised = "none"
       /\ \A member \in Members(rbac)[GroupKey(last.args[1])] :
             RolesOf(rbac, member)
                \subseteq {last.ret.items[i].id : i \in DOMAIN last.ret.items}

\* C29: Role.can_do(p) returns True if and only if the role holds a
\* permission with p's name and a level greater than or equal to p's level
\* (a role holding only x:WRITE can do x:READ).
C29_RoleCanDoByLevel ==
    last.op = "can_do"
    => ReturnedBool(\E held \in Range(rbac.roleObjs[last.args[1].id].permissions) :
                       Satisfies(held, last.args[2]))

\* What the calls C() made so far have returned
Got == UNION {Range(single.at[t].got) : t \in Threads}

\* C30: all calls to the same class return the identical instance, calls to
\* two different classes of the metaclass return different instances, and
\* each instance was constructed by the class that was called.
C30_OneInstancePerClass ==
    \A g \in Got :
        /\ single.types[g.instance] = g.cls
        /\ \A h \in Got : g.cls = h.cls <=> g.instance = h.instance

\* One thread has called both classes and another thread one of them again
C30_Witness ==
    \E t \in Threads, u \in Threads :
        /\ t # u
        /\ Len(single.at[t].got) = 2
        /\ single.at[t].got[1].cls # single.at[t].got[2].cls
        /\ \E k \in DOMAIN single.at[u].got :
              single.at[u].got[k].instance = single.at[t].got[1].instance

\* The call of the factory made in this step
FactoryStep(op) == last = NoCall /\ last'.op = op

\* Some register has returned before this state
DefaultGiven == factory.builders # EmptyDict

\* C31: get_default returns '' until the first successful register, whose
\* key then becomes the default; later register calls never change the
\* default; set_default(k) makes k the default only when k is registered,
\* and for an unregistered k raises ValueError and leaves the default as it
\* was.
C31_DefaultBuilder ==
    [][/\ FactoryStep("get_default") =>
            /\ last'.ret = factory.default
            /\ (~DefaultGiven => last'.ret = "")
       /\ FactoryStep("register") =>
            IF DefaultGiven
            THEN factory'.default = factory.default
            ELSE last'.raised = "none" /\ factory'.default = last'.args[1]
       /\ FactoryStep("set_default") =>
            IF last'.args[1] \in DOMAIN factory.builders
            THEN last'.raised = "none" /\ factory'.default = last'.args[1]
            ELSE last'.raised = "ValueError" /\ factory'.default = factory.default
      ]_vars

\* C39: register with a key that is registered already raises KeyError and
\* leaves the builder stored under the key and the default key as they were.
C39_FailedRegister ==
    [][(FactoryStep("register") /\ last'.args[1] \in DOMAIN factory.builders) =>
           /\ last'.raised = "KeyError"
           /\ factory'.builders = factory.builders
           /\ factory'.default = factory.default
      ]_vars

\* The locks thread t holds
LocksOf(t) == {h[1] : h \in {h \in locks : h[2] = t}}

\* Thread t is in a call and requests the lock of its next with-block
Requests(t) == th[t].op # "idle" /\ ~th[t].inside

\* C32: no interleaving deadlocks or leaves a lock held: a thread never
\* requests RBAC._lock while it holds it, requests a Group or Role lock only
\* while it holds at most RBAC._lock and never requests RBAC._lock while it
\* holds a Group or Role lock, holds no lock once its call has returned or
\* raised, and under fair scheduling every call returns or raises.
C32_NoDeadlock ==
    /\ [](\A t \in Threads :
            /\ Requests(t) =>
                  /\ LockOf(th[t]) \notin LocksOf(t)
                  /\ LocksOf(t) \subseteq
                        (IF LockOf(th[t]) = RbacLock THEN {} ELSE {RbacLock})
            /\ th[t].op = "idle" => LocksOf(t) = {})
    /\ \A t \in Threads : (th[t].op # "idle") ~> (th[t].op = "idle")
    /\ (workload # 0) ~> AllReturned

\* A call has raised inside its with-block (add_user with an invalid name)
\* while another thread, holding RBAC._lock, requests the lock of a group
C32_Witness ==
    \E t \in Threads, u \in Threads :
        /\ \E k \in DOMAIN th[t].out :
              th[t].out[k].op = "add_user" /\ th[t].out[k].raised = "ValueError"
        /\ Requests(u)
        /\ th[u].stage = "has_entity"
        /\ LocksOf(u) = {RbacLock}

\* All the bindings of an index, key by key
Entries(index) == Concat([i \in DOMAIN SetToSeq(DOMAIN index) |-> index[SetToSeq(DOMAIN index)[i]]])

\* How often a binding is in an index
TimesIn(index, rbind) ==
    Cardinality({<<k, i>> \in UNION {{<<k, i>> : i \in DOMAIN index[k]} : k \in DOMAIN index} :
                    index[k][i] = rbind})

\* The two indexes hold the same bindings, each under its entity's name and
\* under its role's name
Mirrored(s) ==
    /\ \A rbind \in Range(Entries(s.rbind_to_ent)) \cup Range(Entries(s.rbind_to_role)) :
          TimesIn(s.rbind_to_ent, rbind) = TimesIn(s.rbind_to_role, rbind)
    /\ \A k \in DOMAIN s.rbind_to_ent : \A i \in DOMAIN s.rbind_to_ent[k] :
          s.rbind_to_ent[k][i].entity.name = k
    /\ \A r \in DOMAIN s.rbind_to_role : \A i \in DOMAIN s.rbind_to_role[r] :
          s.roleObjs[s.rbind_to_role[r][i].role].name = r

\* C33: in every state between calls every RoleBinding is as often in the
\* entity-indexed mapping as in the role-indexed mapping, a binding under
\* entity key k has entity.name = k and a binding under role key r has
\* role.name = r; each add_role_to_entity that returns grows both indexes by
\* exactly one entry, duplicates included.
C33_IndexesMirror ==
    /\ []Mirrored(rbac)
    /\ [][(last = NoCall /\ last'.op = "add_role_to_entity" /\ last'.raised = "none") =>
            /\ Len(Entries(rbac'.rbind_to_ent)) = Len(Entries(rbac.rbind_to_ent)) + 1
            /\ Len(Entries(rbac'.rbind_to_role)) = Len(Entries(rbac.rbind_to_role)) + 1
         ]_vars

\* add_role_to_entity has returned for a pair that was bound already, and
\* another entity is bound to the same role
C33_Witness ==
    /\ last.op = "add_role_to_entity"
    /\ last.raised = "none"
    /\ \E k \in DOMAIN rbac.rbind_to_ent :
          /\ Len(rbac.rbind_to_ent[k]) >= 2
          /\ rbac.rbind_to_ent[k][1] = rbac.rbind_to_ent[k][Len(rbac.rbind_to_ent[k])]
    /\ \E r \in DOMAIN rbac.rbind_to_role :
          \E i, j \in DOMAIN rbac.rbind_to_role[r] :
              rbac.rbind_to_role[r][i].entity # rbac.rbind_to_role[r][j].entity

\* A str without ':', a str that begins with the prefix and a ':'
Bare(key) == Len(key) = 1
Prefixed(name, prefix) == Len(name) >= 2 /\ name[1] = prefix

\* C34: the keys of the users and groups mappings are bare names without
\* ':' while the name of every stored User and Group carries its 'user:' or
\* 'group:' prefix, so no stored entity's name is a key of either mapping,
\* and the entity-indexed binding mapping is keyed by prefixed names only.
C34_KeysBareNamesPrefixed ==
    /\ \A k \in DOMAIN rbac.users :
          /\ Bare(k)
          /\ Prefixed(rbac.users[k].name, "user")
          /\ rbac.users[k].name \notin DOMAIN rbac.users \cup DOMAIN rbac.groups
    /\ \A k \in DOMAIN rbac.groups :
          /\ Bare(k)
          /\ Prefixed(rbac.groupObjs[rbac.groups[k]].name, "group")
          /\ rbac.groupObjs[rbac.groups[k]].name
                \notin DOMAIN rbac.users \cup DOMAIN rbac.groups
    /\ \A id \in DOMAIN rbac.groupObjs : \A n \in DOMAIN rbac.groupObjs[id].users :
          Prefixed(rbac.groupObjs[id].users[n].name, "user")
    /\ \A k \in DOMAIN rbac.rbind_to_ent :
          Prefixed(k, "user") \/ Prefixed(k, "group")

\* add_user was called with a name that has a ':' in an authority that has
\* a user, a group and bindings of both
C34_Witness ==
    /\ last.op = "add_user"
    /\ ~Bare(last.args[1].s)
    /\ rbac.users # EmptyDict
    /\ rbac.groups # EmptyDict
    /\ \E k \in DOMAIN rbac.rbind_to_ent : Prefixed(k, "user")
    /\ \E k \in DOMAIN rbac.rbind_to_ent : Prefixed(k, "group")

\* The Role objects that bindings refer to
BoundRoles(s) ==
    {rbind.role : rbind \in Range(Entries(s.rbind_to_ent)) \cup Range(Entries(s.rbind_to_role))}

\* C35: add_role(r) for a registered name r puts a fresh role without
\* permissions under r; every RoleBinding made before still refers to the
\* previous role object, which keeps its permissions; a permission attached
\* to r afterwards is added only to the fresh role and is not seen through
\* the earlier bindings.
C35_ReRegisteredRoleDetached ==
    [][/\ (/\ last = NoCall /\ last'.op = "add_role"
           /\ last'.args[1].s \in DOMAIN rbac.roles) =>
            LET r == last'.args[1].s IN
            /\ last'.raised = "none"
            /\ rbac'.roles[r] \notin DOMAIN rbac.roleObjs
            /\ rbac'.roleObjs[rbac'.roles[r]].permissions = EmptyDict
            /\ rbac'.rbind_to_ent = rbac.rbind_to_ent
            /\ rbac'.rbind_to_role = rbac.rbind_to_role
            /\ \A id \in DOMAIN rbac.roleObjs : rbac'.roleObjs[id] = rbac.roleObjs[id]
       /\ (/\ last = NoCall /\ last'.op = "add_permission_to_role"
           /\ last'.raised = "none" /\ last'.args[2].kind = "str") =>
            LET r == last'.args[2].s IN
            /\ rbac'.roles = rbac.roles
            /\ rbac'.rbind_to_ent = rbac.rbind_to_ent
            /\ rbac'.rbind_to_role = rbac.rbind_to_role
            /\ \A id \in DOMAIN rbac.roleObjs \ {rbac.roles[r]} :
                  rbac'.roleObjs[id] = rbac.roleObjs[id]
            /\ \A id \in BoundRoles(rbac) \ {rbac.roles[r]} :
                  rbac'.roleObjs[id].permissions = rbac.roleObjs[id].permissions
      ]_vars

\* A permission has just been attached to a name whose role was registered
\* again: a binding made before refers to the replaced role object, which
\* does not hold the permission
C35_Witness ==
    /\ last.op = "add_permission_to_role"
    /\ last.raised = "none"
    /\ last.args[2].kind = "str"
    /\ \E id \in BoundRoles(rbac) :
          /\ id # rbac.roles[last.args[2].s]
          /\ rbac.roleObjs[id].name = last.args[2].s
          /\ rbac.roleObjs[id].permissions # EmptyDict
          /\ DOMAIN rbac.roleObjs[rbac.roles[last.args[2].s]].permissions
                \ DOMAIN rbac.roleObjs[id].permissions # {}

\* The permissions that get_entity_permissions lists for a bare name
PermissionsOf(s, key) ==
    LET r == GetEntityPermissions(s, Str(key)) IN
    IF r.raised = "none" THEN Range(r.ret.items) ELSE {}

\* C36: add_group(g) for a registered name g leaves the group under g
\* without members, so that no user is flattened into g any more, while the
\* bindings under the key 'group:g' are kept and apply to the group itself
\* and to the users added to it later.
C36_ReRegisteredGroupEmptied ==
    /\ [][(/\ last = NoCall /\ last'.op = "add_group"
           /\ last'.args[1].s \in DOMAIN rbac.groups) =>
            LET g == last'.args[1].s IN
            /\ last'.raised = "none"
            /\ rbac'.groupObjs[rbac'.groups[g]].users = EmptyDict
            /\ \A u \in DOMAIN rbac'.users :
                  <<"group">> \o g
                     \notin Range(GetFlattenedEntities(rbac', rbac'.users[u]))
            /\ rbac'.rbind_to_ent = rbac.rbind_to_ent
            /\ rbac'.rbind_to_role = rbac.rbind_to_role
            /\ GetEntityPermissions(rbac', Str(g)) = GetEntityPermissions(rbac, Str(g))
         ]_vars
    /\ [](\A g \in DOMAIN rbac.groups \ DOMAIN rbac.users :
            /\ GetEntityPermissions(rbac, Str(g)).raised = "none"
            /\ <<"group">> \o g \in DOMAIN rbac.rbind_to_ent =>
                  \A i \in DOMAIN rbac.rbind_to_ent[<<"group">> \o g] :
                      Range(rbac.roleObjs[rbac.rbind_to_ent[<<"group">> \o g][i].role]
                                .permissions) \subseteq PermissionsOf(rbac, g)
            /\ \A u \in DOMAIN rbac.users :
                  rbac.users[u].name \in DOMAIN rbac.groupObjs[rbac.groups[g]].users
                     => PermissionsOf(rbac, g) \subseteq PermissionsOf(rbac, u))

\* A user has been added to a group that was registered again after it had
\* a member and a binding to a role with a permission
C36_Witness ==
    /\ last.op = "add_user_to_group"
    /\ last.raised = "none"
    /\ \E g \in DOMAIN rbac.groups :
          /\ \E id \in DOMAIN rbac.groupObjs :
                /\ id # rbac.groups[g]
                /\ rbac.groupObjs[id].name = <<"group">> \o g
                /\ rbac.groupObjs[id].users # EmptyDict
          /\ rbac.groupObjs[rbac.groups[g]].users # EmptyDict
          /\ PermissionsOf(rbac, g) # {}

\* The lookups and the decision of the authority
Lookups ==
    {"get_entity", "get_permission", "get_role", "get_entity_roles",
     "get_entity_permissions", "can_entity_do"}

\* C37: get_entity, get_permission, get_role, get_entity_roles,
\* get_entity_permissions and can_entity_do leave the users, groups,
\* permissions, roles and binding mappings, every group's members and every
\* role's permissions as they were, whether they return or raise.
C37_LookupsReadOnly ==
    [][(last = NoCall /\ last'.op \in Lookups) => rbac' = rbac]_vars

\* get_entity_permissions has walked the groups and the bindings of a
\* member of a group and returned the permissions of its role
C37_Witness ==
    /\ last.op = "get_entity_permissions"
    /\ last.raised = "none"
    /\ last.ret.items # <<>>
    /\ \E id \in DOMAIN rbac.groupObjs : rbac.groupObjs[id].users # EmptyDict

\* The authority after the calls of the first k entries of a configuration
RECURSIVE AfterEntries(_, _, _)
AfterEntries(s, items, k) ==
    IF k = 0 THEN s
    ELSE ConfigCall(AfterEntries(s, items, k - 1), items[k].section, items[k].item).st

\* The call of entry k in the authority that the entries before it leave
EntryCall(s, items, k) ==
    ConfigCall(AfterEntries(s, items, k - 1), items[k].section, items[k].item)

\* What an entry of a section registers is stored
Registered(s, entry) ==
    CASE entry.section = "roles" -> entry.item \in DOMAIN s.roles
      [] entry.section = "users" -> entry.item \in DOMAIN s.users
      [] entry.section = "groups" -> entry.item \in DOMAIN s.groups
      [] entry.section = "permissions" ->
            <<entry.item.name, entry.item.level>> \in DOMAIN s.permissions
      [] OTHER -> TRUE

\* C38: when an entry of the configuration raises, every registration made
\* by the entries processed before it stays in the authority and the
\* entries after it are not applied.
C38_ConfigNoRollback ==
    [][(last = NoCall /\ last'.op = "rbac_config" /\ last'.raised # "none") =>
         LET items == ConfigItems(last'.args[1]) IN
         \E k \in DOMAIN items :
             /\ \A j \in 1..(k - 1) :
                   /\ EntryCall(rbac, items, j).raised = "none"
                   /\ Registered(rbac', items[j])
             /\ EntryCall(rbac, items, k).raised = last'.raised
             /\ rbac' = AfterEntries(rbac, items, k - 1)
      ]_vars

\* rbac_config has raised at a user with an invalid name: the role and the
\* user before it are registered, the user and the group after it are not
C38_Witness ==
    /\ last.op = "rbac_config"
    /\ last.raised = "ValueError"
    /\ <<"r">> \in DOMAIN rbac.roles
    /\ <<"a">> \in DOMAIN rbac.users
    /\ <<"b">> \notin DOMAIN rbac.users
    /\ <<"b">> \notin DOMAIN rbac.groups

\* C40: if the constructor of a class of the metaclass raises, the
\* exception reaches the caller, no instance is stored for the class, the
\* lock of the metaclass is released, and the next call of the class runs
\* the constructor again.
C40_FailureNotRemembered ==
    [][\A t \in Threads :
         /\ (single.at[t].pc = "construct" /\ single'.at[t].pc = "out") =>
               /\ single'.raised[t] = single.raised[t] + 1
               /\ single'.at[t].got = single.at[t].got
               /\ single'.instance = single.instance
               /\ single.at[t].cls \notin DOMAIN single'.instance
               /\ single'.lock = "free"
         /\ (/\ single.at[t].pc = "if"
             /\ single.ran[single.at[t].cls] > 0
             /\ single.at[t].cls \notin DOMAIN single.instance
             /\ single'.at[t] # single.at[t]) =>
               single'.at[t].pc = "construct"
         /\ (single.at[t].pc = "construct" /\ single'.at[t] # single.at[t]) =>
               single'.ran[single.at[t].cls] = single.ran[single.at[t].cls] + 1
      ]_vars

\* The constructor of a class has raised in one thread, and a later call
\* of the class by another thread has run it again and got the instance
C40_Witness ==
    \E t \in Threads, u \in Threads, c \in FailingClasses :
        /\ t # u
        /\ single.raised[t] > 0
        /\ single.ran[c] >= 2
        /\ \E k \in DOMAIN single.at[u].got : single.at[u].got[k].cls = c
        /\ single.lock = "free"

====
